---------------------------- MODULE Spec2Model ----------------------------
(***************************************************************************)
(* Model of the outbound request pipeline of mcp-ovh-webhosting:           *)
(*   - OAuth2ServiceAccountProvider (src/src/ovh/auth/oauth2ServiceAccount.ts) *)
(*     token cache and in-flight refresh promise, under the single-threaded*)
(*     event loop: every action is one synchronous run between two awaits. *)
(*   - OvhClient.request / executeRequest / shouldRetry                    *)
(*     (src/src/ovh/client.ts) with the error taxonomy of errors.ts        *)
(*     (src/unnamed/part_008).                                             *)
(*   - AkAsCkSignatureProvider (src/unnamed/part_006) and its timeDelta,   *)
(*     BearerPassthroughProvider and bearerStorage (src/unnamed/part_004). *)
(* The specifications share the variables: SpecOAuth moves the OAuth2      *)
(* provider (SpecOAuth1: the first definition of its class), SpecRetry one *)
(* logical request of the client, SpecAk the signed-request provider,      *)
(* SpecBearer the bearer scopes, SpecTaxonomy one parseOvhError call.      *)
(***************************************************************************)
EXTENDS Integers, Sequences, FiniteSets, TLC

VARIABLES
    now,                 \* Date.now(), in ms
    cachedToken,         \* OAuth2ServiceAccountProvider.cachedToken
    tokenRefreshPromise, \* OAuth2ServiceAccountProvider.tokenRefreshPromise (0 = null, else promise id)
    promises,            \* the promises returned by refreshToken(), by id; one token POST each
    calls,               \* the getHeaders calls, by caller
    invalidations,       \* number of invalidateCache() calls made
    invalidatedSince,    \* history: invalidateCache() returned and no getHeaders was issued since
    disturbed,           \* history: invalidateCache() ran while a refresh or a call was pending
    req,                 \* the logical request of OvhClient.request
    ak,                  \* the AkAsCkProvider: its timeDelta, its getHeaders calls, its time fetches
    bearer,              \* the bearerStorage scopes opened by withBearerTokenAsync
    tax,                 \* one evaluation of the error taxonomy
    limiter,             \* the TokenBucketRateLimiter of the client: tokens, lastRefillTime
    tool,                \* one tool call through executeToolHandler and formatToolError
    sse,                 \* the HTTP server: its open SSE sessions and the last POST it answered
    acq                  \* the acquire() calls made on the limiter by concurrent callers

oauthVars == <<now, cachedToken, tokenRefreshPromise, promises, calls,
               invalidations, invalidatedSince, disturbed>>
otherVars == <<ak, bearer, tax, limiter, tool, sse, acq>>
vars == <<now, cachedToken, tokenRefreshPromise, promises, calls,
          invalidations, invalidatedSince, disturbed, req, ak, bearer, tax, limiter, tool,
          sse, acq>>

-----------------------------------------------------------------------------
(* Bounds of the model *)
MaxCalls == 2
MaxTicks == 2
MaxInvalidations == 1
MaxRetriesBound == 2
MaxBackoffRetries == 4
MaxFairRetries == 1

(* Program constants *)
TOKEN_REFRESH_MARGIN_MS == 60 * 1000
TickMs == 30 * 1000
\* expires_in values (seconds) the token endpoint may answer: inside the
\* margin, and outside it
ExpiresInChoices == {30, 120}

Callers == 1..MaxCalls

-----------------------------------------------------------------------------
(* OAuth2ServiceAccountProvider *)

\* cachedToken = null
NullToken == [accessToken |-> 0, expiresAt |-> 0]

AuthErrorResult == -1
NoResult == 0
\* a rejection that is not an AuthError (the TypeError of a failed fetch)
RawErrorResult == -2
\* data.access_token of an answer that carries none
UndefinedToken == -3

\* the promise of a refreshToken() whose token POST is in flight. error is what
\* a rejection carries; failed and wrote are history: the POST ended with a
\* non-2xx answer, an answer without access_token or a transport error, and
\* refreshToken assigned this.cachedToken
PendingPromise == [state |-> "pending", token |-> 0, expiresAt |-> 0,
                   error |-> NoResult, failed |-> FALSE, wrote |-> FALSE]

\* a getHeaders call not issued yet. beforeMargin is history: whether the call
\* returned its token at a time t < expiresAt - TOKEN_REFRESH_MARGIN_MS;
\* underWayAtIssue is history too: whether a refresh was under way when the
\* call was issued
IdleCall == [pc |-> "idle", kind |-> "none", promise |-> 0, result |-> NoResult,
             beforeMargin |-> FALSE, pendingAtIssue |-> {}, afterInvalidate |-> FALSE,
             underWayAtIssue |-> FALSE]

\* t is strictly before the token's expiry less the 60 s margin
BeforeMargin(t, expiresAt) == t < expiresAt - 60000

\* isTokenValid with the margin dropped (mutant)
isTokenValid_NoMargin(token, t) == t < token.expiresAt

\* isTokenValid with the margin taken twice (mutant)
isTokenValid_DoubleMargin(token, t) == t < token.expiresAt - 2 * TOKEN_REFRESH_MARGIN_MS

\* isTokenValid(token): Date.now() < token.expiresAt - TOKEN_REFRESH_MARGIN_MS
isTokenValid(token, t) == t < token.expiresAt - TOKEN_REFRESH_MARGIN_MS

\* ids of the refreshToken() promises whose token POST is still in flight
PendingPromises == {r \in 1..Len(promises) : promises[r].state = "pending"}

Awaiting(c) == calls[c].pc \in {"awaitOwner", "awaitJoin"}

\* a refresh has not completed: the getValidToken call that started it has
\* not left its try/finally yet
RefreshUnderWay == \E c \in Callers : calls[c].pc = "awaitOwner"

\* a refresh or a getHeaders call is under way
Active == PendingPromises # {} \/ \E c \in Callers : Awaiting(c)

\* a settled promise has a continuation queued that has not run yet
MicrotaskPending ==
    \E c \in Callers : Awaiting(c) /\ promises[calls[c].promise].state # "pending"


\* what a settled promise hands to the call that awaits it
Settle(call, p, t) ==
    [call EXCEPT !.pc = "done",
                 !.result = IF p.state = "resolved" THEN p.token ELSE p.error,
                 !.beforeMargin = (p.state = "resolved" /\ BeforeMargin(t, p.expiresAt))]

\* getValidToken without the in-flight check: every miss starts a refresh (mutant)
getValidToken_NoJoin(c) ==
    /\ calls[c].pc = "idle"
    /\ \A d \in Callers : d < c => calls[d].pc # "idle"   \* callers are numbered by issue order
    /\ LET base == [IdleCall EXCEPT !.pendingAtIssue = PendingPromises,
                                    !.afterInvalidate = invalidatedSince,
                                    !.underWayAtIssue = RefreshUnderWay]
       IN  IF cachedToken # NullToken /\ isTokenValid(cachedToken, now)
           THEN /\ calls' = [calls EXCEPT ![c] =
                        [base EXCEPT !.pc = "done", !.kind = "cache",
                                     !.result = cachedToken.accessToken,
                                     !.beforeMargin =
                                         BeforeMargin(now, cachedToken.expiresAt)]]
                /\ UNCHANGED <<tokenRefreshPromise, promises>>
           ELSE /\ promises' = Append(promises,
                        PendingPromise)
                /\ tokenRefreshPromise' = Len(promises) + 1
                /\ calls' = [calls EXCEPT ![c] =
                        [base EXCEPT !.pc = "awaitOwner", !.kind = "owner",
                                     !.promise = Len(promises) + 1]]
    /\ invalidatedSince' = FALSE
    /\ UNCHANGED <<now, cachedToken, invalidations, req, ak, bearer, tax, limiter, tool, sse, acq>>
    /\ UNCHANGED disturbed

\* getHeaders -> getValidToken, up to its first await: the cache check, the
\* in-flight check, else refreshToken() runs up to its fetch (the token POST
\* leaves) and its promise is stored
getValidToken(c) ==
    /\ calls[c].pc = "idle"
    /\ \A d \in Callers : d < c => calls[d].pc # "idle"   \* callers are numbered by issue order
    /\ LET base == [IdleCall EXCEPT !.pendingAtIssue = PendingPromises,
                                    !.afterInvalidate = invalidatedSince,
                                    !.underWayAtIssue = RefreshUnderWay]
       IN  IF cachedToken # NullToken /\ isTokenValid(cachedToken, now)
           THEN /\ calls' = [calls EXCEPT ![c] =
                        [base EXCEPT !.pc = "done", !.kind = "cache",
                                     !.result = cachedToken.accessToken,
                                     !.beforeMargin =
                                         BeforeMargin(now, cachedToken.expiresAt)]]
                /\ UNCHANGED <<tokenRefreshPromise, promises>>
           ELSE IF tokenRefreshPromise # 0
           THEN /\ calls' = [calls EXCEPT ![c] =
                        [base EXCEPT !.pc = "awaitJoin", !.kind = "join",
                                     !.promise = tokenRefreshPromise]]
                /\ UNCHANGED <<tokenRefreshPromise, promises>>
           ELSE /\ promises' = Append(promises,
                        PendingPromise)
                /\ tokenRefreshPromise' = Len(promises) + 1
                /\ calls' = [calls EXCEPT ![c] =
                        [base EXCEPT !.pc = "awaitOwner", !.kind = "owner",
                                     !.promise = Len(promises) + 1]]
    /\ invalidatedSince' = FALSE
    /\ UNCHANGED <<now, cachedToken, invalidations, req, ak, bearer, tax, limiter, tool, sse, acq>>
    /\ UNCHANGED disturbed

\* refreshToken after its fetch: a 2xx answer carrying an access_token is
\* cached with expiresAt = Date.now() + expires_in * 1000 and resolves the promise
refreshTokenOk(r, expiresIn) ==
    /\ r \in PendingPromises
    /\ cachedToken' = [accessToken |-> r, expiresAt |-> now + expiresIn * 1000]
    /\ promises' = [promises EXCEPT ![r] =
            [PendingPromise EXCEPT !.state = "resolved", !.token = r,
                                   !.expiresAt = now + expiresIn * 1000,
                                   !.wrote = TRUE]]
    /\ UNCHANGED <<now, tokenRefreshPromise, calls, invalidations, invalidatedSince, req, ak, bearer, tax, limiter, tool, sse, acq>>
    /\ UNCHANGED disturbed

\* refreshToken after its fetch: a non-2xx answer, an answer without
\* access_token or a transport error rejects the promise with an AuthError
refreshTokenFail(r, why) ==
    /\ r \in PendingPromises
    /\ promises' = [promises EXCEPT ![r] =
            [PendingPromise EXCEPT !.state = "rejected", !.error = AuthErrorResult,
                                   !.failed = TRUE]]
    /\ UNCHANGED <<now, cachedToken, tokenRefreshPromise, calls, invalidations,
                   invalidatedSince, req, ak, bearer, tax, limiter, tool, sse, acq>>
    /\ UNCHANGED disturbed

\* the call that started the refresh resuming without the finally block (mutant)
ResumeOwner_NoFinally(c) ==
    /\ calls[c].pc = "awaitOwner"
    /\ promises[calls[c].promise].state # "pending"
    /\ calls' = [calls EXCEPT ![c] = Settle(calls[c], promises[calls[c].promise], now)]
    /\ UNCHANGED <<now, cachedToken, tokenRefreshPromise, promises, invalidations,
                   invalidatedSince, disturbed, req, ak, bearer, tax, limiter, tool, sse, acq>>

\* the call that started the refresh resumes: try { return await } finally
\* { this.tokenRefreshPromise = null }
ResumeOwner(c) ==
    /\ calls[c].pc = "awaitOwner"
    /\ promises[calls[c].promise].state # "pending"
    /\ tokenRefreshPromise' = 0
    /\ calls' = [calls EXCEPT ![c] = Settle(calls[c], promises[calls[c].promise], now)]
    /\ UNCHANGED <<now, cachedToken, promises, invalidations, invalidatedSince, req, ak, bearer, tax, limiter, tool, sse, acq>>
    /\ UNCHANGED disturbed

\* a call that returned the stored promise resumes with its outcome
ResumeJoin(c) ==
    /\ calls[c].pc = "awaitJoin"
    /\ promises[calls[c].promise].state # "pending"
    /\ calls' = [calls EXCEPT ![c] = Settle(calls[c], promises[calls[c].promise], now)]
    /\ UNCHANGED <<now, cachedToken, tokenRefreshPromise, promises, invalidations,
                   invalidatedSince, req, ak, bearer, tax, limiter, tool, sse, acq>>
    /\ UNCHANGED disturbed

\* invalidateCache(): both fields to null
invalidateCache ==
    /\ invalidations < MaxInvalidations
    /\ cachedToken' = NullToken
    /\ tokenRefreshPromise' = 0
    /\ invalidations' = invalidations + 1
    /\ invalidatedSince' = TRUE
    /\ disturbed' = (disturbed \/ Active)
    /\ UNCHANGED <<now, promises, calls, req, ak, bearer, tax, limiter, tool, sse, acq>>

\* the clock advances; queued continuations run before any time passes
Tick ==
    /\ now < MaxTicks * TickMs
    /\ ~MicrotaskPending
    /\ now' = now + TickMs
    /\ UNCHANGED <<cachedToken, tokenRefreshPromise, promises, calls, invalidations,
                   invalidatedSince, disturbed, req, ak, bearer, tax, limiter, tool, sse, acq>>

RefreshFailures == {"httpError", "noAccessToken", "networkError"}

(* OAuth2ServiceAccountProvider, first definition (lines 27-107): the same
   fields, getHeaders, getValidToken and invalidateCache; its refreshToken has
   no try/catch and no access_token test *)

RefreshFailures1 == {"httpError", "networkError"}

\* refreshToken (first definition) after its fetch: a non-2xx answer throws an
\* AuthError; a rejected fetch rejects the promise with the error of fetch
refreshTokenFail1(r, why) ==
    /\ r \in PendingPromises
    /\ promises' = [promises EXCEPT ![r] =
            [PendingPromise EXCEPT !.state = "rejected",
                                   !.error = IF why = "httpError" THEN AuthErrorResult
                                                                  ELSE RawErrorResult,
                                   !.failed = TRUE]]
    /\ UNCHANGED <<now, cachedToken, tokenRefreshPromise, calls, invalidations,
                   invalidatedSince, disturbed, req, ak, bearer, tax, limiter, tool, sse, acq>>

\* refreshToken (first definition) after its fetch: a 2xx answer without
\* access_token is cached as it is and resolves the promise with undefined
refreshTokenNoAccessToken1(r, expiresIn) ==
    /\ r \in PendingPromises
    /\ cachedToken' = [accessToken |-> UndefinedToken,
                       expiresAt |-> now + expiresIn * 1000]
    /\ promises' = [promises EXCEPT ![r] =
            [PendingPromise EXCEPT !.state = "resolved", !.token = UndefinedToken,
                                   !.expiresAt = now + expiresIn * 1000,
                                   !.failed = TRUE, !.wrote = TRUE]]
    /\ UNCHANGED <<now, tokenRefreshPromise, calls, invalidations, invalidatedSince,
                   disturbed, req, ak, bearer, tax, limiter, tool, sse, acq>>

-----------------------------------------------------------------------------
(* Error taxonomy (errors.ts) *)

INVALID_PARAMS == -32602
INTERNAL_ERROR == -32603
RESOURCE_NOT_FOUND == -32001
PERMISSION_DENIED == -32002
RATE_LIMITED == -32003
SERVICE_UNAVAILABLE == -32004

\* lastError = null
\* (at is history, the identity of the error object: the attempt that raised it)
NullError == [cls |-> "null", httpStatus |-> 0, code |-> "none", mcp |-> 0,
              retryable |-> FALSE, msgHasNetwork |-> FALSE, at |-> 0]

\* new OvhApiError(message, httpStatus, ovhErrorCode, mcpErrorCode, retryable)
OvhApiError(httpStatus, code, mcp, retryable) ==
    [cls |-> "OvhApiError", httpStatus |-> httpStatus, code |-> code, mcp |-> mcp,
     retryable |-> retryable, msgHasNetwork |-> FALSE, at |-> 0]

\* the TimeoutError that is not retryable (mutant)
TimeoutError_NotRetryable ==
    [cls |-> "TimeoutError", httpStatus |-> 0, code |-> "TIMEOUT",
     mcp |-> SERVICE_UNAVAILABLE, retryable |-> FALSE, msgHasNetwork |-> FALSE, at |-> 0]

\* new TimeoutError(timeoutMs)
TimeoutError ==
    [cls |-> "TimeoutError", httpStatus |-> 0, code |-> "TIMEOUT",
     mcp |-> SERVICE_UNAVAILABLE, retryable |-> TRUE, msgHasNetwork |-> FALSE, at |-> 0]

\* a thrown value that is no OvhApiError: an Error of the given name (it has
\* no retryable field), or a value that is not an Error at all
PlainThrown(cls, msgHasNetwork) ==
    [cls |-> cls, httpStatus |-> 0, code |-> "none", mcp |-> 0,
     retryable |-> FALSE, msgHasNetwork |-> msgHasNetwork, at |-> 0]

\* new ValidationError(message)
ValidationError ==
    [cls |-> "ValidationError", httpStatus |-> 0, code |-> "VALIDATION_ERROR",
     mcp |-> INVALID_PARAMS, retryable |-> FALSE, msgHasNetwork |-> FALSE, at |-> 0]

\* error instanceof OvhApiError (TimeoutError, RateLimitError and
\* ValidationError extend OvhApiError)
IsOvhApiError(e) ==
    e.cls \in {"OvhApiError", "TimeoutError", "RateLimitError", "ValidationError"}

\* error instanceof Error
IsError(e) ==
    e.cls \in {"OvhApiError", "TimeoutError", "RateLimitError", "ValidationError",
               "Error", "TypeError"}

\* mapHttpStatusToMcp with 429 left to the default of the 4xx switch (mutant)
mapHttpStatusToMcp_No429(httpStatus) ==
    IF httpStatus >= 400 /\ httpStatus < 500
    THEN CASE httpStatus = 400 -> [mcpErrorCode |-> INVALID_PARAMS, retryable |-> FALSE]
           [] httpStatus \in {401, 403} -> [mcpErrorCode |-> PERMISSION_DENIED, retryable |-> FALSE]
           [] httpStatus = 404 -> [mcpErrorCode |-> RESOURCE_NOT_FOUND, retryable |-> FALSE]
           [] OTHER -> [mcpErrorCode |-> INVALID_PARAMS, retryable |-> FALSE]
    ELSE IF httpStatus >= 500
    THEN IF httpStatus = 503
         THEN [mcpErrorCode |-> SERVICE_UNAVAILABLE, retryable |-> TRUE]
         ELSE [mcpErrorCode |-> INTERNAL_ERROR, retryable |-> TRUE]
    ELSE [mcpErrorCode |-> INTERNAL_ERROR, retryable |-> FALSE]

\* mapHttpStatusToMcp(httpStatus) of part_008
mapHttpStatusToMcp(httpStatus) ==
    IF httpStatus >= 400 /\ httpStatus < 500
    THEN CASE httpStatus = 400 -> [mcpErrorCode |-> INVALID_PARAMS, retryable |-> FALSE]
           [] httpStatus \in {401, 403} -> [mcpErrorCode |-> PERMISSION_DENIED, retryable |-> FALSE]
           [] httpStatus = 404 -> [mcpErrorCode |-> RESOURCE_NOT_FOUND, retryable |-> FALSE]
           [] httpStatus = 429 -> [mcpErrorCode |-> RATE_LIMITED, retryable |-> TRUE]
           [] OTHER -> [mcpErrorCode |-> INVALID_PARAMS, retryable |-> FALSE]
    ELSE IF httpStatus >= 500
    THEN IF httpStatus = 503
         THEN [mcpErrorCode |-> SERVICE_UNAVAILABLE, retryable |-> TRUE]
         ELSE [mcpErrorCode |-> INTERNAL_ERROR, retryable |-> TRUE]
    ELSE [mcpErrorCode |-> INTERNAL_ERROR, retryable |-> FALSE]

\* the message of the error parseOvhError of part_008 returns: errorData.message
\* || `Erreur OVH HTTP ${httpStatus}` for a body that parses, and
\* createHttpError's message || `Erreur HTTP ${httpStatus}`, message being the
\* body itself, for one that does not parse
MessageKinds == {"bodyMessage", "rawBody", "synthesized", "emptyString"}

\* The response bodies of a non-2xx answer, by what parseOvhError does with them:
\*   jsonMessage    a JSON object with a message (and an errorCode or class)
\*   jsonNoMessage  a JSON object without message, errorCode and class
\*   jsonNull       the JSON text null
\*   text           text that is not JSON
\*   empty          the empty string (not JSON either)
ErrorBodies == {"jsonMessage", "jsonNoMessage", "jsonNull", "text", "empty"}

\* JSON.parse(responseBody) yields null, and errorData.message throws a TypeError
parseOvhErrorThrows(body) == body = "jsonNull"

\* parseOvhError(httpStatus, responseBody) where it returns
parseOvhError(httpStatus, body) ==
    LET m == mapHttpStatusToMcp(httpStatus)
    IN  OvhApiError(httpStatus,
                    IF body = "jsonMessage" THEN "fromBody" ELSE "none",
                    m.mcpErrorCode, m.retryable)

\* createHttpError without the || fallback (mutant)
parseOvhErrorMessage_NoFallback(body) ==
    CASE body = "jsonMessage" -> "bodyMessage"
      [] body = "jsonNoMessage" -> "synthesized"
      [] body = "text" -> "rawBody"
      [] body = "empty" -> "emptyString"
      [] OTHER -> "none"

\* the message of the error parseOvhError (part_008) returns, by body
parseOvhErrorMessage(body) ==
    CASE body = "jsonMessage" -> "bodyMessage"
      [] body = "jsonNoMessage" -> "synthesized"
      [] body = "text" -> "rawBody"
      [] body = "empty" -> "synthesized"
      [] OTHER -> "none"

\* the message of the error parseOvhError of part_007 returns: its
\* createHttpError passes the body on as the message, with no fallback
parseOvhErrorMessageOther(body) ==
    CASE body = "jsonMessage" -> "bodyMessage"
      [] body = "jsonNoMessage" -> "synthesized"
      [] body = "text" -> "rawBody"
      [] body = "empty" -> "emptyString"
      [] OTHER -> "none"

\* mapHttpStatusToMcp(httpStatus) of the other definition of errors.ts (part_007)
mapHttpStatusToMcpOther(httpStatus) ==
    IF httpStatus = 400 THEN [mcpErrorCode |-> INVALID_PARAMS, retryable |-> FALSE]
    ELSE IF httpStatus = 401 \/ httpStatus = 403
    THEN [mcpErrorCode |-> PERMISSION_DENIED, retryable |-> FALSE]
    ELSE IF httpStatus = 404 THEN [mcpErrorCode |-> RESOURCE_NOT_FOUND, retryable |-> FALSE]
    ELSE IF httpStatus = 429 THEN [mcpErrorCode |-> RATE_LIMITED, retryable |-> TRUE]
    ELSE IF httpStatus >= 500 THEN [mcpErrorCode |-> SERVICE_UNAVAILABLE, retryable |-> TRUE]
    ELSE [mcpErrorCode |-> INTERNAL_ERROR, retryable |-> FALSE]

\* parseOvhError(httpStatus, responseBody) of part_007 where it returns: the
\* same body handling, its own mapHttpStatusToMcp
parseOvhErrorOther(httpStatus, body) ==
    LET m == mapHttpStatusToMcpOther(httpStatus)
    IN  OvhApiError(httpStatus,
                    IF body = "jsonMessage" THEN "fromBody" ELSE "none",
                    m.mcpErrorCode, m.retryable)

-----------------------------------------------------------------------------
(* TokenBucketRateLimiter (src/src/utils/rateLimiter.ts). Tokens are real
   numbers in the code; the model counts them in thousandths of a token. *)

OneToken == 1000
\* config.maxTokens, in tokens
LimiterMaxTokens == 2
\* config.refillRate, in thousandths of a token per second (0.5 token/s, the
\* rate of DEFAULT_RATE_LIMITER_CONFIG)
RefillRate == 500
\* config.maxWaitMs
MaxWaitMs == 1000

\* the limiter as its constructor leaves it
IdleLimiter == [tokens |-> LimiterMaxTokens * OneToken, lastRefillTime |-> 0]

\* the buckets a request can find: full, holding half a token, empty
LimiterStates ==
    {[tokens |-> t, lastRefillTime |-> 0] : t \in {LimiterMaxTokens * OneToken, OneToken \div 2, 0}}

\* the RateLimitError that is not retryable (mutant)
RateLimitError_NotRetryable ==
    [cls |-> "RateLimitError", httpStatus |-> 0, code |-> "RATE_LIMIT",
     mcp |-> RATE_LIMITED, retryable |-> FALSE, msgHasNetwork |-> FALSE, at |-> 0]

\* new RateLimitError(message)
RateLimitError ==
    [cls |-> "RateLimitError", httpStatus |-> 0, code |-> "RATE_LIMIT",
     mcp |-> RATE_LIMITED, retryable |-> TRUE, msgHasNetwork |-> FALSE, at |-> 0]

\* refill() without the cap at maxTokens (mutant)
refill_NoCap(l, t) ==
    [tokens |-> l.tokens + ((t - l.lastRefillTime) * RefillRate) \div 1000,
     lastRefillTime |-> t]

\* refill() at time t: tokens = min(maxTokens, tokens + elapsedMs / 1000 * refillRate)
refill(l, t) ==
    LET added == ((t - l.lastRefillTime) * RefillRate) \div 1000
        sum == l.tokens + added
    IN  [tokens |-> IF sum > LimiterMaxTokens * OneToken
                    THEN LimiterMaxTokens * OneToken ELSE sum,
         lastRefillTime |-> t]

\* Math.ceil(((1 - tokens) / refillRate) * 1000)
waitTimeMs(l) == ((OneToken - l.tokens) * 1000 + RefillRate - 1) \div RefillRate

\* acquire() granting without taking the token (mutant)
acquire_NoConsume(l, t) ==
    LET r == refill(l, t)
    IN  IF r.tokens >= OneToken
        THEN [outcome |-> "acquired", wait |-> 0, limiter |-> r]
        ELSE IF MaxWaitMs = 0 \/ waitTimeMs(r) > MaxWaitMs
        THEN [outcome |-> "RateLimitError", wait |-> 0, limiter |-> r]
        ELSE [outcome |-> "sleep", wait |-> waitTimeMs(r), limiter |-> r]

\* acquire() up to its return, its throw or its await this.sleep(waitTimeMs)
acquire(l, t) ==
    LET r == refill(l, t)
    IN  IF r.tokens >= OneToken
        THEN [outcome |-> "acquired", wait |-> 0,
              limiter |-> [r EXCEPT !.tokens = @ - OneToken]]
        ELSE IF MaxWaitMs = 0 \/ waitTimeMs(r) > MaxWaitMs
        THEN [outcome |-> "RateLimitError", wait |-> 0, limiter |-> r]
        ELSE [outcome |-> "sleep", wait |-> waitTimeMs(r), limiter |-> r]

\* acquire() granting after its sleep without taking the token (mutant)
acquireAfterSleep_NoConsume(l, t) ==
    LET r == refill(l, t)
    IN  IF r.tokens >= OneToken
        THEN [outcome |-> "acquired", wait |-> 0, limiter |-> r]
        ELSE [outcome |-> "RateLimitError", wait |-> 0, limiter |-> r]

\* acquire() after its sleep: refill(), then a token or a RateLimitError
acquireAfterSleep(l, t) ==
    LET r == refill(l, t)
    IN  IF r.tokens >= OneToken
        THEN [outcome |-> "acquired", wait |-> 0,
              limiter |-> [r EXCEPT !.tokens = @ - OneToken]]
        ELSE [outcome |-> "RateLimitError", wait |-> 0, limiter |-> r]

-----------------------------------------------------------------------------
(* OvhClient (client.ts) *)

\* What the outside answers to one attempt: the credential strategy's
\* getHeaders, then the transport.
\*   auth:      ok | AuthError | Error | ErrorNetwork | TypeError | NonError
\*              (getHeaders resolves, or rejects with an AuthError, with another
\*              Error, with an Error whose message contains "network", with a
\*              TypeError, or with a value that is no Error)
\*   transport: response | abort | throw
Statuses == {200, 400, 401, 404, 429, 500, 503}
OkBodies == {"json", "notJson"}

AuthAnswers == {"AuthError", "Error", "ErrorNetwork", "TypeError", "NonError"}

\* the credential strategies config.authProvider can be: the signed-request
\* provider, the OAuth2 provider (its two definitions) and the bearer passthrough
Strategies == {"AkAsCkSignature", "OAuth2ServiceAccount", "OAuth2ServiceAccount1",
               "BearerPassthrough"}

\* how getHeaders of each strategy can reject:
\*   AkAsCkSignature        never (syncTime catches every error)
\*   OAuth2ServiceAccount   with an AuthError (refreshToken wraps every error)
\*   OAuth2ServiceAccount1  with an AuthError (non-2xx answer), with the TypeError
\*                          of a rejected fetch, with the SyntaxError of json()
\*   BearerPassthrough      with a plain Error (no token in the context)
AuthAnswersOf(strategy) ==
    CASE strategy = "AkAsCkSignature" -> {}
      [] strategy = "OAuth2ServiceAccount" -> {"AuthError"}
      [] strategy = "OAuth2ServiceAccount1" -> {"AuthError", "TypeError", "Error"}
      [] strategy = "BearerPassthrough" -> {"Error"}

AttemptAnswers ==
    [auth : AuthAnswers, transport : {"none"}, status : {0}, body : {"none"}]
    \cup [auth : {"ok"}, transport : {"abort", "throw"}, status : {0}, body : {"none"}]
    \cup [auth : {"ok"}, transport : {"response"}, status : {200}, body : OkBodies]
    \cup [auth : {"ok"}, transport : {"response"}, status : Statuses \ {200}, body : ErrorBodies]

\* the wrapped AuthError marked retryable (mutant)
wrapAuthError_Retryable == OvhApiError(401, "AUTH_ERROR", PERMISSION_DENIED, TRUE)

\* new OvhApiError(error.message, 401, 'AUTH_ERROR', -32002, false, error)
wrapAuthError == OvhApiError(401, "AUTH_ERROR", PERMISSION_DENIED, FALSE)

\* the timer of setTimeout(() => controller.abort(), timeoutMs): "unarmed"
\* before the call, "pending" after it, "fired" once the callback has run,
\* "cleared" once clearTimeout has cancelled it
TimerStates == {"unarmed", "pending", "fired", "cleared"}

\* clearTimeout cancelling nothing (mutant)
clearTimeout_Noop(timer) == timer

\* clearTimeout(timeoutId): cancels a pending timer, no effect on another
clearTimeout(timer) == IF timer = "pending" THEN "cleared" ELSE timer

\* the timer when executeRequest returns or throws. getHeaders rejecting
\* leaves before setTimeout; fetch rejecting (the abort of the fired timer, or
\* another error) reaches only the clearTimeout of the catch block; fetch
\* resolving reaches the clearTimeout after it, and the catch block as well
\* when the rest of the try block throws
timerAtExit(ans, thrownInTry) ==
    IF ans.auth # "ok" THEN "unarmed"
    ELSE IF ans.transport = "abort" THEN clearTimeout("fired")
    ELSE IF ans.transport = "throw" THEN clearTimeout("pending")
    ELSE IF thrownInTry THEN clearTimeout(clearTimeout("pending"))
    ELSE clearTimeout("pending")

\* the network error that is not retryable (mutant)
NetworkError_NotRetryable == OvhApiError(0, "NETWORK_ERROR", INTERNAL_ERROR, FALSE)

\* new OvhApiError('Erreur réseau', 0, 'NETWORK_ERROR', -32603, true, error)
NetworkError == OvhApiError(0, "NETWORK_ERROR", INTERNAL_ERROR, TRUE)

\* what the try block of executeRequest does with the answer of fetch: ok, or
\* the error it throws into its catch block
tryBlock(ans) ==
    IF ans.transport = "abort"
    THEN [ok |-> FALSE, error |-> PlainThrown("AbortError", FALSE)]
    ELSE IF ans.transport = "throw"
    THEN [ok |-> FALSE, error |-> PlainThrown("TypeError", FALSE)]
    ELSE IF ans.status >= 200 /\ ans.status <= 299
    THEN IF ans.body = "json"
         THEN [ok |-> TRUE, error |-> NullError]
         ELSE \* response.json() throws a SyntaxError
              [ok |-> FALSE, error |-> PlainThrown("Error", FALSE)]
    ELSE IF parseOvhErrorThrows(ans.body)
         THEN [ok |-> FALSE, error |-> PlainThrown("TypeError", FALSE)]
         ELSE [ok |-> FALSE, error |-> parseOvhError(ans.status, ans.body)]

\* the catch block of executeRequest: an AbortError becomes a TimeoutError, an
\* OvhApiError is thrown again, anything else becomes the network error
catchBlock(error) ==
    IF error.cls = "AbortError" THEN TimeoutError
    ELSE IF IsOvhApiError(error) THEN error
    ELSE NetworkError

\* executeRequest: one attempt. ok, the error thrown otherwise, whether
\* fetch(url, ...) was called, and the timer left behind
executeRequest(ans) ==
    IF ans.auth = "AuthError"
    THEN [ok |-> FALSE, transport |-> 0, error |-> wrapAuthError,
          timer |-> timerAtExit(ans, FALSE)]
    ELSE IF ans.auth # "ok"
    THEN [ok |-> FALSE, transport |-> 0,
          error |-> CASE ans.auth = "Error" -> PlainThrown("Error", FALSE)
                      [] ans.auth = "ErrorNetwork" -> PlainThrown("Error", TRUE)
                      [] ans.auth = "TypeError" -> PlainThrown("TypeError", FALSE)
                      [] OTHER -> PlainThrown("NonError", FALSE),
          timer |-> timerAtExit(ans, FALSE)]
    ELSE LET t == tryBlock(ans)
         IN  IF t.ok
             THEN [ok |-> TRUE, transport |-> 1, error |-> NullError,
                   timer |-> timerAtExit(ans, FALSE)]
             ELSE [ok |-> FALSE, transport |-> 1, error |-> catchBlock(t.error),
                   timer |-> timerAtExit(ans, TRUE)]

\* maxAttempts without the first attempt counted (mutant)
maxAttemptsOf_NoInitial(skipRetry, maxRetries) == IF skipRetry THEN 1 ELSE maxRetries

\* maxAttempts ignoring skipRetry (mutant)
maxAttemptsOf_NoSkip(skipRetry, maxRetries) == maxRetries + 1

\* const maxAttempts = options.skipRetry ? 1 : this.config.maxRetries + 1
maxAttemptsOf(skipRetry, maxRetries) == IF skipRetry THEN 1 ELSE maxRetries + 1

\* shouldRetry without the attempt bound (mutant)
shouldRetry_NoBound(error, attempt, maxAttempts) ==
    IF IsOvhApiError(error) THEN error.retryable
    ELSE IF IsError(error) THEN error.cls = "TypeError" \/ error.msgHasNetwork
    ELSE FALSE

\* shouldRetry(error, attempt, maxAttempts)
shouldRetry(error, attempt, maxAttempts) ==
    IF attempt >= maxAttempts THEN FALSE
    ELSE IF IsOvhApiError(error) THEN error.retryable
    ELSE IF IsError(error) THEN error.cls = "TypeError" \/ error.msgHasNetwork
    ELSE FALSE

\* the catch block keeping the first error (mutant)
catchLastError_KeepFirst(lastError, error) ==
    IF lastError = NullError THEN error ELSE lastError

\* lastError = error as Error
catchLastError(lastError, error) == error

\* the request before OvhClient.request is called. attempts, transportCalls,
\* sleeps, raised, firstStatus, allRetryable and priorHttpRetryable are
\* history: the executeRequest calls made, the fetch calls made, the backoff
\* sleeps started, the error the last executeRequest threw, the HTTP status
\* the first attempt received (0: none), whether every failure so far was an
\* OvhApiError with retryable = true, and whether every failure so far was an
\* HTTP 503 or 429 answer. response is the status of the 2xx answer an attempt
\* returned (0: none), thrown the value thrown to the caller. strategy is
\* config.authProvider; lastAuth and lastTransport are history: how getHeaders
\* ended in the last executeRequest, and the fetch calls that executeRequest made.
\* wait is the waitTimeMs acquire() sleeps and delay the backoff delay being
\* slept; limiterBefore, calledAt, acquired, started, sleepsDone, lastOutcome
\* and lastTimer are history: the limiter and the time when request was
\* called, whether acquire() granted a token, the executeRequest calls
\* started, the backoff sleeps that have elapsed, how fetch ended in the last
\* executeRequest ("none": not called), and the timer that executeRequest left.
\* credentialCalls, headersAt, sentHeadersAt, lastStatus, answered2xx,
\* reissued and tokensTaken are history too: the getHeaders calls made, the
\* attempt whose getHeaders call last resolved, the attempt whose headers the
\* last fetch sent, the status of the last answer (0: none), whether a
\* transport call was answered with a 2xx status, whether a transport call
\* was made after that, and the tokens acquire() took from the bucket
IdleReq ==
    [pc |-> "idle", strategy |-> "AkAsCkSignature", lastAuth |-> "none",
     lastTransport |-> 0,
     skipRateLimit |-> FALSE, limiterBefore |-> IdleLimiter, acquired |-> FALSE,
     calledAt |-> 0, wait |-> 0, started |-> 0, sleepsDone |-> 0, delay |-> 0,
     lastOutcome |-> "none", lastTimer |-> "unarmed",
     maxRetries |-> 0, skipRetry |-> FALSE, maxAttempts |-> 0,
     attempt |-> 0, lastError |-> NullError, response |-> 0, thrown |-> NullError,
     attempts |-> 0, transportCalls |-> 0, sleeps |-> 0,
     raised |-> NullError, firstStatus |-> 0,
     allRetryable |-> TRUE, priorHttpRetryable |-> TRUE,
     credentialCalls |-> 0, headersAt |-> 0, sentHeadersAt |-> 0,
     lastStatus |-> 0, answered2xx |-> FALSE, reissued |-> FALSE,
     tokensTaken |-> 0]

\* OvhClient.request from after the rate limiter to the first await of the
\* loop: maxAttempts, the first loop test (the loop left at once throws
\* lastError) and the call of executeRequest, which runs up to its await of
\* getHeaders
enterLoop(r) ==
    LET m == maxAttemptsOf(r.skipRetry, r.maxRetries)
    IN  [r EXCEPT !.maxAttempts = m,
                  !.attempt = 1,
                  !.started = IF 1 <= m THEN @ + 1 ELSE @,
                  !.pc = IF 1 <= m THEN "attempt" ELSE "thrown"]

\* get, post, put, delete: OvhClient.request up to its first await. Unless
\* skipRateLimit, rateLimiter.acquire() runs first: it grants a token, throws
\* a RateLimitError out of request, or sleeps
request(skipRetry, skipRateLimit) ==
    /\ req.pc = "idle"
    /\ LET a == IF skipRateLimit
                THEN [outcome |-> "skipped", wait |-> 0, limiter |-> limiter]
                ELSE acquire(limiter, now)
           r == [req EXCEPT !.skipRetry = skipRetry,
                            !.skipRateLimit = skipRateLimit,
                            !.limiterBefore = limiter,
                            !.calledAt = now,
                            !.acquired = (a.outcome = "acquired"),
                            !.tokensTaken =
                                (refill(limiter, now).tokens - a.limiter.tokens)
                                    \div OneToken]
       IN  /\ limiter' = a.limiter
           /\ req' = CASE a.outcome = "RateLimitError" ->
                            [r EXCEPT !.pc = "thrown", !.thrown = RateLimitError]
                        [] a.outcome = "sleep" ->
                            [r EXCEPT !.pc = "acquireWait", !.wait = a.wait]
                        [] OTHER -> enterLoop(r)
    /\ UNCHANGED <<oauthVars, ak, bearer, tax, tool, sse, acq>>

\* the sleep of acquire() ends waitTimeMs later: refill(), then a token and
\* the loop, or a RateLimitError thrown out of request
acquireWaitDone ==
    /\ req.pc = "acquireWait"
    /\ now' = req.calledAt + req.wait
    /\ LET a == acquireAfterSleep(limiter, req.calledAt + req.wait)
       IN  /\ limiter' = a.limiter
           /\ req' = IF a.outcome = "acquired"
                     THEN enterLoop([req EXCEPT
                              !.acquired = TRUE,
                              !.tokensTaken = @ +
                                  (refill(limiter, req.calledAt + req.wait).tokens
                                      - a.limiter.tokens) \div OneToken])
                     ELSE [req EXCEPT !.pc = "thrown", !.thrown = RateLimitError]
    /\ UNCHANGED <<cachedToken, tokenRefreshPromise, promises, calls, invalidations,
                   invalidatedSince, disturbed, ak, bearer, tax, tool, sse, acq>>

\* another request of the same client, suspended in acquire() as long as this
\* one, is resumed first: refill(), and the token if the bucket holds one
otherAcquireAfterSleep ==
    /\ req.pc = "acquireWait"
    /\ now < req.calledAt + req.wait
    /\ now' = req.calledAt + req.wait
    /\ limiter' = acquireAfterSleep(limiter, req.calledAt + req.wait).limiter
    /\ UNCHANGED <<cachedToken, tokenRefreshPromise, promises, calls, invalidations,
                   invalidatedSince, disturbed, req, ak, bearer, tax, tool, sse, acq>>

\* the success path falling through to the next loop pass (mutant)
returnResponse_FallThrough(r, status) ==
    [r EXCEPT !.response = status,
              !.attempt = @ + 1,
              !.pc = IF r.attempt + 1 <= r.maxAttempts THEN "attempt" ELSE "thrown"]

\* return response
returnResponse(r, status) == [r EXCEPT !.response = status, !.pc = "returned"]

\* RETRY_DELAYS
RETRY_DELAYS == <<1000, 2000, 4000>>

\* the values Math.random() takes: n / RandomSteps for n in 0 .. RandomSteps - 1
RandomSteps == 4

\* getRetryDelay with a jitter of up to 50% (mutant)
getRetryDelay_HalfJitter(attempt, n) ==
    LET last == Len(RETRY_DELAYS)
        index == IF attempt - 1 < last - 1 THEN attempt - 1 ELSE last - 1
        baseDelay == RETRY_DELAYS[index + 1]
    IN  baseDelay + (n * baseDelay) \div (2 * RandomSteps)

\* getRetryDelay(attempt) when Math.random() returns n / RandomSteps:
\* Math.floor(baseDelay + random * baseDelay * 0.25), baseDelay =
\* RETRY_DELAYS[Math.min(attempt - 1, RETRY_DELAYS.length - 1)]
getRetryDelay(attempt, n) ==
    LET last == Len(RETRY_DELAYS)
        index == IF attempt - 1 < last - 1 THEN attempt - 1 ELSE last - 1
        baseDelay == RETRY_DELAYS[index + 1]
    IN  baseDelay + (n * baseDelay) \div (4 * RandomSteps)

\* the retry going on to the next loop pass without the sleep (mutant)
backoff_NoSleep(r, delay) ==
    [r EXCEPT !.attempt = @ + 1, !.started = @ + 1, !.pc = "attempt"]

\* await this.sleep(delay): the request waits, no attempt in flight
backoff(r, delay) == [r EXCEPT !.sleeps = @ + 1, !.delay = delay, !.pc = "sleep"]

\* the headers of the first resolved getHeaders call sent again (mutant)
sentHeaders_Reused(k, headersAt) == IF headersAt # 0 THEN headersAt ELSE k

\* const headers = { ...authHeaders, ...additionalHeaders }: fetch at attempt
\* k sends the headers that the getHeaders call of this executeRequest
\* returned, whatever attempt headersAt got headers before
sentHeaders(k, headersAt) == k

\* one pass of the loop body: executeRequest, then return, or the catch
\* block: lastError, shouldRetry, and either the backoff sleep or break and
\* throw lastError
attemptStep(ans, n) ==
    /\ req.pc = "attempt"
    /\ ans.auth \in {"ok"} \cup AuthAnswersOf(req.strategy)
    /\ LET out == executeRequest(ans)
           k == req.attempt
           error == [out.error EXCEPT !.at = k]
           retry == shouldRetry(error, k, req.maxAttempts)
           last == catchLastError(req.lastError, error)
           hist == [req EXCEPT !.attempts = @ + 1,
                               !.lastAuth = ans.auth,
                               !.lastTransport = out.transport,
                               !.lastOutcome = ans.transport,
                               !.credentialCalls = @ + 1,
                               !.headersAt = IF ans.auth = "ok" THEN k ELSE @,
                               !.sentHeadersAt =
                                   IF out.transport = 1
                                   THEN sentHeaders(k, req.headersAt) ELSE @,
                               !.lastStatus =
                                   IF out.transport = 1 THEN ans.status ELSE @,
                               !.answered2xx =
                                   @ \/ (out.transport = 1 /\ ans.status \in 200..299),
                               !.reissued =
                                   @ \/ (out.transport = 1 /\ req.answered2xx),
                               !.lastTimer = out.timer,
                               !.transportCalls = @ + out.transport,
                               !.firstStatus = IF k = 1 THEN ans.status ELSE @]
       IN  /\ retry \/ n = 0      \* Math.random() is only called for a retry
           /\ IF out.ok
              THEN req' = returnResponse(hist, ans.status)
              ELSE LET failed == [hist EXCEPT
                           !.lastError = last,
                           !.raised = error,
                           !.allRetryable = @ /\ IsOvhApiError(error) /\ error.retryable,
                           !.priorHttpRetryable = @ /\ ans.status \in {429, 503}]
                   IN  req' = IF retry
                              THEN backoff(failed, getRetryDelay(k, n))
                              ELSE [failed EXCEPT !.thrown = last, !.pc = "thrown"]
    /\ UNCHANGED <<oauthVars, otherVars>>

\* the backoff sleep ends: continue, attempt++ and the loop test (the loop
\* left throws lastError)
sleepDone ==
    /\ req.pc = "sleep"
    /\ req' = [req EXCEPT !.attempt = @ + 1,
                          !.delay = 0,
                          !.sleepsDone = @ + 1,
                          !.started = IF req.attempt + 1 <= req.maxAttempts
                                      THEN @ + 1 ELSE @,
                          !.thrown = IF req.attempt + 1 <= req.maxAttempts
                                     THEN @ ELSE req.lastError,
                          !.pc = IF req.attempt + 1 <= req.maxAttempts
                                 THEN "attempt" ELSE "thrown"]
    /\ UNCHANGED <<oauthVars, otherVars>>

-----------------------------------------------------------------------------
(* AkAsCkProvider (src/unnamed/part_006) *)

\* timeDelta = null
NullDelta == [present |-> FALSE, value |-> 0]
\* this.timeDelta = d
Delta(d) == [present |-> TRUE, value |-> d]

\* serverTime - localTime of a 2xx /auth/time answer, in seconds
DeltaChoices == {0, 3}
\* what fetch(.../auth/time) ends as: a 2xx answer with a number, a 2xx
\* answer whose json() throws, a non-2xx answer, a rejected fetch
SyncAnswers == {"ok", "notJson", "non2xx", "throw"}
SyncFailures == {"non2xx", "throw"}

\* a getHeaders call not issued yet. synced, syncAns, afterSync, used, threw,
\* afterCompleted and afterInvalidate are history: the call made a time-sync
\* fetch, how that fetch ended, timeDelta when its syncTime returned, the delta
\* its timestamp and signature were computed with, whether it rejected,
\* whether at its issue a call had completed since the last invalidateCache,
\* whether it is the first call issued after an invalidateCache.
\* inFlightAtIssue is history: the calls that were awaiting their syncTime
\* when this one was issued
IdleAkCall == [pc |-> "idle", synced |-> FALSE, syncAns |-> "none",
               afterSync |-> NullDelta, used |-> 0, threw |-> FALSE,
               epoch |-> 0, afterCompleted |-> FALSE, afterInvalidate |-> FALSE,
               inFlightAtIssue |-> {}]

\* def is the definition of the class in force (1: lines 19-135, 2: lines
\* 220-281). invalidations, completedSince, invalidatedSince and overlap are
\* history: the invalidateCache calls made, whether a call issued since the
\* last of them has completed, whether none was issued since it, and
\* whether two calls, or a call and invalidateCache, ever overlapped
IdleAk == [def |-> 1, timeDelta |-> NullDelta,
           calls |-> [c \in Callers |-> IdleAkCall],
           invalidations |-> 0, completedSince |-> FALSE,
           invalidatedSince |-> FALSE, overlap |-> FALSE]

AkInFlight == {c \in Callers : ak.calls[c].pc \in {"awaitSync", "resume"}}

\* const timestamp = Math.floor(Date.now() / 1000) + (this.timeDelta || 0):
\* the delta added to the local time
deltaUsed(timeDelta) == IF timeDelta.present THEN timeDelta.value ELSE 0

\* timeDelta after syncTime, from how the fetch ended. First definition: a
\* non-2xx answer throws inside the try, and the catch writes 0. Second
\* definition: if (response.ok) {...} has no else, so a non-2xx answer writes
\* nothing; the catch writes 0
syncTimeWrites(def, timeDelta, ans, d) ==
    CASE ans = "ok" -> Delta(d)
      [] ans \in {"notJson", "throw"} -> Delta(0)
      [] ans = "non2xx" -> IF def = 1 THEN Delta(0) ELSE timeDelta

\* getHeaders up to its first await: with a timeDelta it signs and returns,
\* without one syncTime() runs up to its fetch
akGetHeaders(c) ==
    /\ ak.calls[c].pc = "idle"
    /\ \A d \in Callers : d < c => ak.calls[d].pc # "idle"   \* numbered by issue order
    /\ LET base == [IdleAkCall EXCEPT !.epoch = ak.invalidations,
                                      !.inFlightAtIssue = AkInFlight,
                                      !.afterCompleted = ak.completedSince,
                                      !.afterInvalidate = ak.invalidatedSince]
       IN  ak' = [ak EXCEPT
                !.calls[c] = IF ak.timeDelta.present
                             THEN [base EXCEPT !.pc = "done",
                                               !.used = deltaUsed(ak.timeDelta)]
                             ELSE [base EXCEPT !.pc = "awaitSync", !.synced = TRUE],
                !.completedSince = @ \/ ak.timeDelta.present,
                !.invalidatedSince = FALSE,
                !.overlap = @ \/ AkInFlight # {}]
    /\ UNCHANGED <<oauthVars, req, bearer, tax, limiter, tool, sse, acq>>

\* the time fetch of call c ends and syncTime runs to its end
syncTime(c, ans, d) ==
    /\ ak.calls[c].pc = "awaitSync"
    /\ LET written == syncTimeWrites(ak.def, ak.timeDelta, ans, d)
       IN  ak' = [ak EXCEPT !.timeDelta = written,
                            !.calls[c] = [@ EXCEPT !.pc = "resume",
                                                   !.syncAns = ans,
                                                   !.afterSync = written]]
    /\ UNCHANGED <<oauthVars, req, bearer, tax, limiter, tool, sse, acq>>

\* getHeaders resumes after await this.syncTime(): timestamp, signature, return
akResume(c) ==
    /\ ak.calls[c].pc = "resume"
    /\ ak' = [ak EXCEPT !.calls[c] = [@ EXCEPT !.pc = "done",
                                               !.used = deltaUsed(ak.timeDelta)],
                        !.completedSince = @ \/ ak.calls[c].epoch = ak.invalidations]
    /\ UNCHANGED <<oauthVars, req, bearer, tax, limiter, tool, sse, acq>>

\* invalidateCache(): this.timeDelta = null
akInvalidateCache ==
    /\ ak.invalidations < MaxInvalidations
    /\ ak' = [ak EXCEPT !.timeDelta = NullDelta,
                        !.invalidations = @ + 1,
                        !.completedSince = FALSE,
                        !.invalidatedSince = TRUE,
                        !.overlap = @ \/ AkInFlight # {}]
    /\ UNCHANGED <<oauthVars, req, bearer, tax, limiter, tool, sse, acq>>

-----------------------------------------------------------------------------
(* BearerPassthroughProvider (src/unnamed/part_004) *)

MaxScopes == 2

Scopes == 1..MaxScopes
\* the tokens a caller may bind; server.ts binds bearerToken || ''
BearerTokens == {"", "a", "b"}
\* bearerStorage.getStore() outside every run(): undefined
NoStore == "undefined"

\* a getHeaders outcome: the Authorization header's token, or the class of the
\* error thrown
NoOutcome == [ok |-> FALSE, cls |-> "none", token |-> ""]

\* a withBearerTokenAsync scope not opened yet. store is the value
\* bearerStorage.run bound for the scope's asynchronous context; last, during
\* and own are history: the outcome of the last getHeaders call made inside
\* the scope (NoOutcome: none yet), whether it ran while another scope was
\* open, and whether every call so far ended as the scope's own binding requires
IdleScope == [pc |-> "idle", store |-> NoStore, last |-> NoOutcome,
              during |-> FALSE, own |-> TRUE]

\* outside and sync are history: the outcome of the last getHeaders made
\* outside every scope, and of the last one made inside withBearerToken
IdleBearer == [scopes |-> [s \in Scopes |-> IdleScope],
               outside |-> NoOutcome, sync |-> NoOutcome, syncToken |-> ""]

OpenScopes(b) == {s \in Scopes : b.scopes[s].pc = "open"}

\* the store kept in one module variable written by the scope opened last
\* (mutant)
getStore_Global(b, s) ==
    IF OpenScopes(b) = {} THEN NoStore
    ELSE b.scopes[CHOOSE x \in OpenScopes(b) : \A y \in OpenScopes(b) : y <= x].store

\* bearerStorage.getStore() in the asynchronous context of scope s (0: a
\* context outside every run()): AsyncLocalStorage hands each context the
\* store bound by the run() it descends from
getStore(b, s) == IF s = 0 THEN NoStore ELSE b.scopes[s].store

\* BearerPassthroughProvider.getHeaders, given the store of the calling context
bearerGetHeaders(store) ==
    IF store = NoStore \/ store = ""
    THEN [ok |-> FALSE, cls |-> "Error", token |-> ""]
    ELSE [ok |-> TRUE, cls |-> "none", token |-> store]

\* what a call must end as for a context bound to store: the bound token, or
\* a failure when nothing, or the empty token, is bound
OwnOutcome(out, store) ==
    IF store = NoStore \/ store = "" THEN ~out.ok ELSE out.ok /\ out.token = store

\* withBearerTokenAsync(token, fn): bearerStorage.run({ token }, fn), fn
\* running up to its first await
withBearerTokenAsync(s, token) ==
    /\ bearer.scopes[s].pc = "idle"
    /\ \A x \in Scopes : x < s => bearer.scopes[x].pc # "idle"  \* numbered by opening order
    /\ bearer' = [bearer EXCEPT !.scopes[s] =
                      [IdleScope EXCEPT !.pc = "open", !.store = token]]
    /\ UNCHANGED <<oauthVars, req, ak, tax, limiter, tool, sse, acq>>

\* fn of scope s resumes and calls getHeaders
getHeadersInScope(s) ==
    /\ bearer.scopes[s].pc = "open"
    /\ LET out == bearerGetHeaders(getStore(bearer, s))
       IN  bearer' = [bearer EXCEPT !.scopes[s] =
                [@ EXCEPT !.last = out,
                          !.during = OpenScopes(bearer) # {s},
                          !.own = @ /\ OwnOutcome(out, bearer.scopes[s].store)]]
    /\ UNCHANGED <<oauthVars, req, ak, tax, limiter, tool, sse, acq>>

\* the promise of fn settles: the scope ends, fulfilled or rejected
scopeCompletes(s, ok) ==
    /\ bearer.scopes[s].pc = "open"
    /\ bearer' = [bearer EXCEPT !.scopes[s].pc = IF ok THEN "fulfilled" ELSE "rejected"]
    /\ UNCHANGED <<oauthVars, req, ak, tax, limiter, tool, sse, acq>>

\* getHeaders called from a context no run() encloses
getHeadersOutside ==
    /\ bearer' = [bearer EXCEPT !.outside = bearerGetHeaders(getStore(bearer, 0))]
    /\ UNCHANGED <<oauthVars, req, ak, tax, limiter, tool, sse, acq>>

\* withBearerToken(token, fn) with a fn that calls getHeaders: run() binds the
\* store for the synchronous run of fn, in which getHeaders reads it
withBearerToken(token) ==
    /\ bearer' = [bearer EXCEPT !.sync = bearerGetHeaders(token), !.syncToken = token]
    /\ UNCHANGED <<oauthVars, req, ak, tax, limiter, tool, sse, acq>>

-----------------------------------------------------------------------------
(* Evaluation of the taxonomy *)

\* the statuses handed to parseOvhError: those of answers that are not 2xx
MaxStatus == 599
ErrorStatuses == 300..MaxStatus

\* the definitions of errors.ts in the repository
TaxDefinitions == {"part_008", "part_007"}

\* no parseOvhError call made yet; def is the definition in force, httpStatus
\* and body the arguments of the call to come
IdleTax == [pc |-> "idle", def |-> "part_008", httpStatus |-> 0, body |-> "none",
            threw |-> FALSE, error |-> NullError, message |-> "none"]

\* parseOvhError(tax.httpStatus, tax.body): the OvhApiError returned, or the
\* TypeError of errorData.message on a null body
parseOvhErrorCall ==
    /\ tax.pc = "idle"
    /\ tax' = [tax EXCEPT
            !.pc = "done",
            !.threw = parseOvhErrorThrows(tax.body),
            !.error = IF parseOvhErrorThrows(tax.body)
                      THEN PlainThrown("TypeError", FALSE)
                      ELSE IF tax.def = "part_008"
                      THEN parseOvhError(tax.httpStatus, tax.body)
                      ELSE parseOvhErrorOther(tax.httpStatus, tax.body),
            !.message = IF parseOvhErrorThrows(tax.body) THEN "none"
                        ELSE IF tax.def = "part_008"
                        THEN parseOvhErrorMessage(tax.body)
                        ELSE parseOvhErrorMessageOther(tax.body)]
    /\ UNCHANGED <<oauthVars, req, ak, bearer, limiter, tool, sse, acq>>

-----------------------------------------------------------------------------
(* Tool dispatch (src/src/tools/index.ts) *)

\* the names of readOnlyToolDefs
readOnlyToolDefs ==
    {"ovh.webhosting.listServices", "ovh.webhosting.getService",
     "ovh.webhosting.getActiveConfiguration", "ovh.webhosting.listDatabases",
     "ovh.webhosting.listFtpUsers", "ovh.webhosting.listModuleCatalog",
     "ovh.webhosting.getModuleCatalogItem", "ovh.webhosting.listDatabaseDumps"}

\* the names of writeToolDefs
writeToolDefs ==
    {"ovh.webhosting.attachDomain", "ovh.webhosting.installSsl",
     "ovh.webhosting.createDatabase", "ovh.webhosting.createDatabaseDump",
     "ovh.webhosting.restoreDatabaseDump", "ovh.webhosting.installModule"}

\* the keys of the toolHandlers map
toolHandlers ==
    {"ovh.webhosting.listServices", "ovh.webhosting.getService",
     "ovh.webhosting.getActiveConfiguration", "ovh.webhosting.listDatabases",
     "ovh.webhosting.listFtpUsers", "ovh.webhosting.listModuleCatalog",
     "ovh.webhosting.getModuleCatalogItem", "ovh.webhosting.listDatabaseDumps",
     "ovh.webhosting.attachDomain", "ovh.webhosting.installSsl",
     "ovh.webhosting.createDatabase", "ovh.webhosting.createDatabaseDump",
     "ovh.webhosting.restoreDatabaseDump", "ovh.webhosting.installModule"}

\* the tool names a caller may pass: the registered ones and one that is not
ToolNames == toolHandlers \cup {"ovh.webhosting.unknown"}

\* getToolDefinitions(enableWriteTools), as the set of the names it returns
getToolDefinitions(enableWriteTools) ==
    IF enableWriteTools THEN readOnlyToolDefs \cup writeToolDefs ELSE readOnlyToolDefs

\* the write tools never refused (mutant)
writeToolRefused_Never(toolName, enableWriteTools) == FALSE

\* isWriteTool && !enableWriteTools
writeToolRefused(toolName, enableWriteTools) ==
    toolName \in writeToolDefs /\ ~enableWriteTools

\* formatToolError(error).code
formatToolError(error) ==
    IF IsOvhApiError(error) THEN error.mcp              \* error.toMcpError()
    ELSE IF error.cls = "ValidationError" THEN INVALID_PARAMS
    ELSE IF IsError(error) THEN INTERNAL_ERROR
    ELSE INTERNAL_ERROR

\* how a handler can end once executeToolHandler has called it, with a client
\* of the given credential strategy: it returns, validateInput throws a
\* ValidationError before any client call, the client call throws (from
\* acquire(), from getHeaders, or after fetch), or a value that is no Error
\* is thrown. apiCalls tells whether fetch was called
HandlerOutcomes(strategy) ==
    {[origin |-> "none", error |-> NullError, apiCalls |-> 1],
     [origin |-> "validateInput", error |-> ValidationError, apiCalls |-> 0],
     [origin |-> "acquire", error |-> RateLimitError, apiCalls |-> 0],
     [origin |-> "other", error |-> PlainThrown("NonError", FALSE), apiCalls |-> 0]}
    \cup {[origin |-> "getHeaders", error |-> executeRequest(ans).error, apiCalls |-> 0] :
              ans \in {a \in AttemptAnswers : a.auth \in AuthAnswersOf(strategy)}}
    \cup {[origin |-> "fetch", error |-> executeRequest(ans).error, apiCalls |-> 1] :
              ans \in {a \in AttemptAnswers : a.auth = "ok" /\ ~executeRequest(a).ok}}

\* no tool call made yet. strategy is the credential strategy of the client;
\* handlerRan, apiCalls, origin, listedFor and listed are history: whether
\* the handler was called, whether it reached fetch, where the thrown error
\* came from, and the last getToolDefinitions call with its answer
IdleTool ==
    [pc |-> "idle", strategy |-> "AkAsCkSignature", toolName |-> "none",
     enableWriteTools |-> FALSE, handlerRan |-> FALSE, apiCalls |-> 0,
     origin |-> "none", thrown |-> NullError, code |-> 0,
     listedFor |-> "none", listed |-> {}]

\* getToolDefinitions(enableWriteTools), called when the tools are listed
getToolDefinitionsCall(enableWriteTools) ==
    /\ tool.pc = "idle"
    /\ tool' = [tool EXCEPT !.listedFor = IF enableWriteTools THEN "true" ELSE "false",
                            !.listed = getToolDefinitions(enableWriteTools)]
    /\ UNCHANGED <<oauthVars, req, ak, bearer, tax, limiter, sse, acq>>

\* executeToolHandler up to its await of the handler: an unknown tool and a
\* refused write tool throw a ValidationError before the handler is called
executeToolHandler(toolName, enableWriteTools) ==
    /\ tool.pc = "idle"
    /\ LET t == [tool EXCEPT !.toolName = toolName,
                             !.enableWriteTools = enableWriteTools]
       IN  tool' = IF toolName \notin toolHandlers
                      \/ writeToolRefused(toolName, enableWriteTools)
                   THEN [t EXCEPT !.pc = "thrown", !.origin = "dispatch",
                                  !.thrown = ValidationError]
                   ELSE [t EXCEPT !.pc = "handler", !.handlerRan = TRUE]
    /\ UNCHANGED <<oauthVars, req, ak, bearer, tax, limiter, sse, acq>>

\* the handler settles: executeToolHandler returns its result or throws its
\* error again
handlerSettles(o) ==
    /\ tool.pc = "handler"
    /\ o \in HandlerOutcomes(tool.strategy)
    /\ tool' = [tool EXCEPT !.pc = IF o.error = NullError THEN "returned" ELSE "thrown",
                            !.origin = o.origin,
                            !.thrown = o.error,
                            !.apiCalls = o.apiCalls]
    /\ UNCHANGED <<oauthVars, req, ak, bearer, tax, limiter, sse, acq>>

\* the caller of executeToolHandler formats the error it caught
formatToolErrorCall ==
    /\ tool.pc = "thrown"
    /\ tool' = [tool EXCEPT !.pc = "formatted", !.code = formatToolError(tool.thrown)]
    /\ UNCHANGED <<oauthVars, req, ak, bearer, tax, limiter, sse, acq>>

-----------------------------------------------------------------------------
(* The HTTP transport of the server (src/src/server.ts, startHttpServer) *)

MaxSessions == 2

\* the keys of sseTransports; the model draws a key not in the map
SessionIds == 1..MaxSessions
\* config.authMode: bearer passthrough, or a mode with credentials of the server
AuthModes == {"oauth2", "akasck", "bearer"}
\* the Authorization header of an inbound request: absent, of another scheme,
\* or "Bearer <token>"
AuthorizationHeaders ==
    {[scheme |-> "absent", token |-> ""], [scheme |-> "Basic", token |-> "a"]}
        \cup {[scheme |-> "Bearer", token |-> t] : t \in {"a", "b"}}
\* the undefined that extractBearerToken returns
NoToken == "undefined"
\* the MCP requests a POST carries
McpMethods == {"tools/call", "tools/list"}

\* extractBearerToken(authHeader): the token of a "Bearer <token>" header,
\* undefined otherwise
extractBearerToken(h) == IF h.scheme = "Bearer" THEN h.token ELSE NoToken

\* bearerToken || ''
orEmpty(t) == IF t = NoToken THEN "" ELSE t

\* no POST answered yet. requestToken is the bearer token of the POST,
\* boundToken the token the tool call ran under (NoToken: no tool call),
\* sessionId the session whose server handled the message and open the
\* tokens of the sessions open at that time
NoPost == [status |-> "none", method |-> "none", requestToken |-> NoToken,
           boundToken |-> NoToken, sessionId |-> 0, open |-> {}]

\* the server as startHttpServer leaves it: sseTransports empty. transports
\* lists the entries of the Map in insertion order, each with the bearerToken
\* its GET handler closed over; lastGet is the answer to the last GET
IdleSse == [authMode |-> "bearer", transports |-> <<>>, lastGet |-> "none",
            last |-> NoPost]

OpenSessionIds(s) == {s.transports[i].sessionId : i \in 1..Len(s.transports)}

\* sseTransports.values().next().value: the entry inserted first
firstTransport(s) == s.transports[1]

\* the transport the POST handler hands the message to
postTransport(s) == firstTransport(s)

\* app.get(httpPath): 401 without a bearer token in bearer mode; otherwise a
\* Server whose CallTool handler closes over bearerToken, and a transport
\* stored under a new session id
getHttpPath(h, id) ==
    /\ Len(sse.transports) < MaxSessions
    /\ id \in SessionIds \ OpenSessionIds(sse)
    /\ LET bearerToken == extractBearerToken(h)
       IN  sse' = IF sse.authMode = "bearer" /\ bearerToken = NoToken
                  THEN [sse EXCEPT !.lastGet = "401"]
                  ELSE [sse EXCEPT !.lastGet = "connected",
                            !.transports = Append(@, [sessionId |-> id,
                                                      bearerToken |-> bearerToken])]
    /\ UNCHANGED <<oauthVars, req, ak, bearer, tax, limiter, tool, acq>>

\* res.on('close'): sseTransports.delete(sessionId)
sseClose(id) ==
    /\ id \in OpenSessionIds(sse)
    /\ sse' = [sse EXCEPT !.transports =
                   SelectSeq(@, LAMBDA t : t.sessionId # id)]
    /\ UNCHANGED <<oauthVars, req, ak, bearer, tax, limiter, tool, acq>>

\* app.post(httpPath): 401 without a bearer token in bearer mode, 400 without
\* a transport, else transport.handlePostMessage, which hands the message to
\* the Server connected to the transport (delivered) or throws (500). The
\* CallTool handler of that Server runs the tool under
\* withBearerTokenAsync(bearerToken || '') with the bearerToken of its GET
postHttpPath(h, method, delivered) ==
    /\ LET bearerToken == extractBearerToken(h)
       IN  sse' = [sse EXCEPT !.last =
             IF sse.authMode = "bearer" /\ bearerToken = NoToken
             THEN [NoPost EXCEPT !.status = "401", !.method = method]
             ELSE IF sse.transports = <<>>
             THEN [NoPost EXCEPT !.status = "400", !.method = method,
                                 !.requestToken = bearerToken]
             ELSE IF ~delivered
             THEN [NoPost EXCEPT !.status = "500", !.method = method,
                                 !.requestToken = bearerToken]
             ELSE [status |-> "handled", method |-> method,
                   requestToken |-> bearerToken,
                   boundToken |-> IF method = "tools/call"
                                  THEN orEmpty(postTransport(sse).bearerToken)
                                  ELSE NoToken,
                   sessionId |-> postTransport(sse).sessionId,
                   open |-> {sse.transports[i].bearerToken :
                                 i \in 1..Len(sse.transports)}]]
    /\ UNCHANGED <<oauthVars, req, ak, bearer, tax, limiter, tool, acq>>

-----------------------------------------------------------------------------
(* Concurrent callers of one TokenBucketRateLimiter
   (src/src/utils/rateLimiter.ts) *)

MaxAcquirers == 2
MaxLimiterTicks == 4

Acquirers == 1..MaxAcquirers
\* the time between two readings of Date.now() that differ, in ms
LimiterStepMs == 500

\* an acquire() not called yet. wakeAt is the time its sleep ends; slept and
\* took are history: whether the call went through its sleep, and by how much
\* the run that ended the call lowered tokens below what its refill() left
IdleAcquire == [pc |-> "idle", wakeAt |-> 0, slept |-> FALSE, took |-> 0]

\* available and wasReset are history: the last answer of getAvailableTokens
\* (-1: none yet) and whether reset() was called
IdleAcq == [calls |-> [a \in Acquirers |-> IdleAcquire], available |-> -1,
            wasReset |-> FALSE]

\* Date.now() moves on
limiterTick ==
    /\ now < MaxLimiterTicks * LimiterStepMs
    /\ now' = now + LimiterStepMs
    /\ UNCHANGED <<cachedToken, tokenRefreshPromise, promises, calls, invalidations,
                   invalidatedSince, disturbed, req, otherVars>>

\* acquire(waitIfNeeded) called by a: it returns true, throws, or suspends in
\* its sleep; with waitIfNeeded false it throws where it would have slept
limiterAcquire(a, waitIfNeeded) ==
    /\ acq.calls[a].pc # "sleeping"
    /\ LET r == acquire(limiter, now)
           refilled == refill(limiter, now)
       IN  /\ limiter' = r.limiter
           /\ acq' = [acq EXCEPT !.calls[a] =
                 IF r.outcome = "acquired"
                 THEN [IdleAcquire EXCEPT !.pc = "acquired",
                                          !.took = refilled.tokens - r.limiter.tokens]
                 ELSE IF r.outcome = "RateLimitError" \/ ~waitIfNeeded
                 THEN [IdleAcquire EXCEPT !.pc = "rejected",
                                          !.took = refilled.tokens - r.limiter.tokens]
                 ELSE [IdleAcquire EXCEPT !.pc = "sleeping", !.wakeAt = now + r.wait]]
    /\ UNCHANGED <<oauthVars, req, ak, bearer, tax, tool, sse>>

\* the sleep of a ends (its timer fires at wakeAt or later): refill(), then a
\* token or a RateLimitError
limiterWake(a) ==
    /\ acq.calls[a].pc = "sleeping"
    /\ now >= acq.calls[a].wakeAt
    /\ LET r == acquireAfterSleep(limiter, now)
           refilled == refill(limiter, now)
       IN  /\ limiter' = r.limiter
           /\ acq' = [acq EXCEPT !.calls[a] =
                 [IdleAcquire EXCEPT
                     !.pc = IF r.outcome = "acquired" THEN "acquired" ELSE "rejected",
                     !.slept = TRUE,
                     !.took = refilled.tokens - r.limiter.tokens]]
    /\ UNCHANGED <<oauthVars, req, ak, bearer, tax, tool, sse>>

\* getAvailableTokens(): refill(), then Math.floor(tokens)
getAvailableTokens ==
    /\ limiter' = refill(limiter, now)
    /\ acq' = [acq EXCEPT !.available = limiter'.tokens \div OneToken]
    /\ UNCHANGED <<oauthVars, req, ak, bearer, tax, tool, sse>>

\* reset(): tokens = maxTokens, lastRefillTime = Date.now()
reset ==
    /\ limiter' = [tokens |-> LimiterMaxTokens * OneToken, lastRefillTime |-> now]
    /\ acq' = [acq EXCEPT !.wasReset = TRUE]
    /\ UNCHANGED <<oauthVars, req, ak, bearer, tax, tool, sse>>

-----------------------------------------------------------------------------
(* Specifications *)

InitOAuth ==
    /\ now = 0
    /\ cachedToken = NullToken
    /\ tokenRefreshPromise = 0
    /\ promises = <<>>
    /\ calls = [c \in Callers |-> IdleCall]
    /\ invalidations = 0
    /\ invalidatedSince = FALSE
    /\ disturbed = FALSE
    /\ req = IdleReq
    /\ ak = IdleAk
    /\ bearer = IdleBearer
    /\ tax = IdleTax
    /\ sse = IdleSse
    /\ acq = IdleAcq
    /\ limiter = IdleLimiter
    /\ tool = IdleTool

NextOAuth ==
    \/ \E c \in Callers : getValidToken(c)
    \/ \E r \in 1..MaxCalls, e \in ExpiresInChoices : refreshTokenOk(r, e)
    \/ \E r \in 1..MaxCalls, w \in RefreshFailures : refreshTokenFail(r, w)
    \/ \E c \in Callers : ResumeOwner(c)
    \/ \E c \in Callers : ResumeJoin(c)
    \/ invalidateCache
    \/ Tick

SpecOAuth == InitOAuth /\ [][NextOAuth]_vars

\* the provider of the first definition
NextOAuth1 ==
    \/ \E c \in Callers : getValidToken(c)
    \/ \E r \in 1..MaxCalls, e \in ExpiresInChoices : refreshTokenOk(r, e)
    \/ \E r \in 1..MaxCalls, w \in RefreshFailures1 : refreshTokenFail1(r, w)
    \/ \E r \in 1..MaxCalls, e \in ExpiresInChoices : refreshTokenNoAccessToken1(r, e)
    \/ \E c \in Callers : ResumeOwner(c)
    \/ \E c \in Callers : ResumeJoin(c)
    \/ invalidateCache
    \/ Tick

SpecOAuth1 == InitOAuth /\ [][NextOAuth1]_vars

\* one logical request of a client configured with maxRetries (config.ts: 0..10)
InitRetry ==
    /\ now = 0
    /\ cachedToken = NullToken
    /\ tokenRefreshPromise = 0
    /\ promises = <<>>
    /\ calls = [c \in Callers |-> IdleCall]
    /\ invalidations = 0
    /\ invalidatedSince = FALSE
    /\ disturbed = FALSE
    /\ \E m \in 0..MaxRetriesBound, s \in Strategies :
            req = [IdleReq EXCEPT !.maxRetries = m, !.strategy = s]
    /\ ak = IdleAk
    /\ bearer = IdleBearer
    /\ tax = IdleTax
    /\ sse = IdleSse
    /\ acq = IdleAcq
    /\ limiter \in LimiterStates
    /\ tool = IdleTool

NextRetry ==
    \/ \E skipRetry, skipRateLimit \in BOOLEAN : request(skipRetry, skipRateLimit)
    \/ acquireWaitDone
    \/ \E ans \in AttemptAnswers, n \in 0..(RandomSteps - 1) : attemptStep(ans, n)
    \/ sleepDone

SpecRetry == InitRetry /\ [][NextRetry]_vars

\* The requests of a client whose credential strategy is the first OAuth2
\* definition, the one whose getHeaders can reject in every way the others
\* can, with maxRetries up to MaxFairRetries
InitRetryFair ==
    /\ now = 0
    /\ cachedToken = NullToken
    /\ tokenRefreshPromise = 0
    /\ promises = <<>>
    /\ calls = [c \in Callers |-> IdleCall]
    /\ invalidations = 0
    /\ invalidatedSince = FALSE
    /\ disturbed = FALSE
    /\ \E m \in 0..MaxFairRetries :
            req = [IdleReq EXCEPT !.maxRetries = m, !.strategy = "OAuth2ServiceAccount1"]
    /\ ak = IdleAk
    /\ bearer = IdleBearer
    /\ tax = IdleTax
    /\ sse = IdleSse
    /\ acq = IdleAcq
    /\ limiter \in LimiterStates
    /\ tool = IdleTool

\* The same requests while another request of the client waits for a token too
NextRateLimit ==
    \/ NextRetry
    \/ otherAcquireAfterSleep

SpecRateLimit == InitRetryFair /\ [][NextRateLimit]_vars

\* Every credential call, transport call and sleep completes: a step of the
\* request that can be taken is taken in the end
SpecRetryFair == InitRetryFair /\ [][NextRetry]_vars /\ WF_vars(NextRetry)

\* The requests of a client using the signed-request provider, with maxRetries
\* up to MaxBackoffRetries: the backoff after each failed attempt k, k > 3
\* included
InitBackoff ==
    /\ now = 0
    /\ cachedToken = NullToken
    /\ tokenRefreshPromise = 0
    /\ promises = <<>>
    /\ calls = [c \in Callers |-> IdleCall]
    /\ invalidations = 0
    /\ invalidatedSince = FALSE
    /\ disturbed = FALSE
    /\ \E m \in 0..MaxBackoffRetries :
            req = [IdleReq EXCEPT !.maxRetries = m, !.strategy = "AkAsCkSignature"]
    /\ ak = IdleAk
    /\ bearer = IdleBearer
    /\ tax = IdleTax
    /\ sse = IdleSse
    /\ acq = IdleAcq
    /\ limiter \in LimiterStates
    /\ tool = IdleTool

SpecBackoff == InitBackoff /\ [][NextRetry]_vars

\* One tool call of a server whose client uses any of the credential strategies
InitTools ==
    /\ now = 0
    /\ cachedToken = NullToken
    /\ tokenRefreshPromise = 0
    /\ promises = <<>>
    /\ calls = [c \in Callers |-> IdleCall]
    /\ invalidations = 0
    /\ invalidatedSince = FALSE
    /\ disturbed = FALSE
    /\ req = IdleReq
    /\ ak = IdleAk
    /\ bearer = IdleBearer
    /\ tax = IdleTax
    /\ sse = IdleSse
    /\ acq = IdleAcq
    /\ limiter = IdleLimiter
    /\ \E s \in Strategies : tool = [IdleTool EXCEPT !.strategy = s]

NextTools ==
    \/ \E e \in BOOLEAN : getToolDefinitionsCall(e)
    \/ \E n \in ToolNames, e \in BOOLEAN : executeToolHandler(n, e)
    \/ \E s \in Strategies : \E o \in HandlerOutcomes(s) : handlerSettles(o)
    \/ formatToolErrorCall

SpecTools == InitTools /\ [][NextTools]_vars

\* a provider of either definition, nothing synchronised yet
InitAk ==
    /\ now = 0
    /\ cachedToken = NullToken
    /\ tokenRefreshPromise = 0
    /\ promises = <<>>
    /\ calls = [c \in Callers |-> IdleCall]
    /\ invalidations = 0
    /\ invalidatedSince = FALSE
    /\ disturbed = FALSE
    /\ req = IdleReq
    /\ \E d \in {1, 2} : ak = [IdleAk EXCEPT !.def = d]
    /\ bearer = IdleBearer
    /\ tax = IdleTax
    /\ sse = IdleSse
    /\ acq = IdleAcq
    /\ limiter = IdleLimiter
    /\ tool = IdleTool

NextAk ==
    \/ \E c \in Callers : akGetHeaders(c)
    \/ \E c \in Callers, ans \in SyncAnswers, d \in DeltaChoices : syncTime(c, ans, d)
    \/ \E c \in Callers : akResume(c)
    \/ akInvalidateCache

SpecAk == InitAk /\ [][NextAk]_vars

InitTaxonomy ==
    /\ now = 0
    /\ cachedToken = NullToken
    /\ tokenRefreshPromise = 0
    /\ promises = <<>>
    /\ calls = [c \in Callers |-> IdleCall]
    /\ invalidations = 0
    /\ invalidatedSince = FALSE
    /\ disturbed = FALSE
    /\ req = IdleReq
    /\ ak = IdleAk
    /\ bearer = IdleBearer
    /\ \E d \in TaxDefinitions, st \in ErrorStatuses, b \in ErrorBodies :
            tax = [IdleTax EXCEPT !.def = d, !.httpStatus = st, !.body = b]
    /\ sse = IdleSse
    /\ acq = IdleAcq
    /\ limiter = IdleLimiter
    /\ tool = IdleTool

NextTaxonomy == parseOvhErrorCall

SpecTaxonomy == InitTaxonomy /\ [][NextTaxonomy]_vars

NextBearer ==
    \/ \E s \in Scopes, t \in BearerTokens : withBearerTokenAsync(s, t)
    \/ \E s \in Scopes : getHeadersInScope(s)
    \/ \E s \in Scopes, ok \in BOOLEAN : scopeCompletes(s, ok)
    \/ getHeadersOutside
    \/ \E t \in BearerTokens : withBearerToken(t)

SpecBearer == InitOAuth /\ [][NextBearer]_vars

\* The HTTP server in either auth mode, no session open
InitSse ==
    /\ now = 0
    /\ cachedToken = NullToken
    /\ tokenRefreshPromise = 0
    /\ promises = <<>>
    /\ calls = [c \in Callers |-> IdleCall]
    /\ invalidations = 0
    /\ invalidatedSince = FALSE
    /\ disturbed = FALSE
    /\ req = IdleReq
    /\ ak = IdleAk
    /\ bearer = IdleBearer
    /\ tax = IdleTax
    /\ limiter = IdleLimiter
    /\ tool = IdleTool
    /\ \E mode \in AuthModes : sse = [IdleSse EXCEPT !.authMode = mode]
    /\ acq = IdleAcq

NextSse ==
    \/ \E h \in AuthorizationHeaders, id \in SessionIds : getHttpPath(h, id)
    \/ \E id \in SessionIds : sseClose(id)
    \/ \E h \in AuthorizationHeaders, method \in McpMethods, delivered \in BOOLEAN :
           postHttpPath(h, method, delivered)

SpecSse == InitSse /\ [][NextSse]_vars

\* Callers sharing the limiter its constructor has just built
NextLimiter ==
    \/ limiterTick
    \/ \E a \in Acquirers, waitIfNeeded \in BOOLEAN : limiterAcquire(a, waitIfNeeded)
    \/ \E a \in Acquirers : limiterWake(a)
    \/ getAvailableTokens
    \/ reset

SpecLimiter == InitOAuth /\ [][NextLimiter]_vars

-----------------------------------------------------------------------------
(* Claims about the OAuth2 provider *)

\* C1: for any interleaving of getHeaders and invalidateCache calls, at most
\* one token POST of refreshToken is in flight at any time.
C1_AtMostOneRefreshInFlight == Cardinality(PendingPromises) <= 1

\* C2: as long as invalidateCache has not run while a refresh or a call was
\* pending, every getHeaders call issued while the token POST of another call
\* is in flight starts no POST of its own but awaits that one (so a single POST
\* is in flight), and the calls end with the same outcome: the same access
\* token, or an AuthError for all.
C2_ConcurrentCallsShareOneFetch ==
    ~disturbed =>
        /\ Cardinality(PendingPromises) <= 1
        /\ \A c1, c2 \in Callers :
              (calls[c1].kind = "owner" /\ calls[c1].promise \in calls[c2].pendingAtIssue)
              => /\ calls[c2].kind = "join"
                 /\ calls[c2].promise = calls[c1].promise
                 /\ (calls[c1].pc = "done" /\ calls[c2].pc = "done"
                        => calls[c1].result = calls[c2].result)

C2_Witness ==
    /\ ~disturbed
    /\ Len(promises) = 1
    /\ \E c1, c2 \in Callers :
          /\ c1 # c2
          /\ calls[c1].kind = "owner" /\ calls[c2].kind = "join"
          /\ calls[c1].promise \in calls[c2].pendingAtIssue
          /\ calls[c1].pc = "done" /\ calls[c2].pc = "done"
          /\ calls[c1].result > 0 /\ calls[c2].result = calls[c1].result

\* C9 as claimed: every access token a getHeaders call returns, from the cache
\* or from a refresh it started or awaited, is returned at a time
\* t < expiresAt - 60 s.
C9_EveryReturnedTokenBeforeMargin ==
    \A c \in Callers :
        (calls[c].pc = "done" /\ calls[c].result > 0) => calls[c].beforeMargin

\* C9 as amended: every access token a getHeaders call returns from the cache
\* (without a refresh) is returned at a time t < expiresAt - 60 s.
C9_CachedTokenBeforeMargin ==
    \A c \in Callers :
        (calls[c].pc = "done" /\ calls[c].kind = "cache")
        => (calls[c].result > 0 /\ calls[c].beforeMargin)

C9_Witness ==
    \E c \in Callers :
        calls[c].pc = "done" /\ calls[c].kind = "cache" /\ calls[c].beforeMargin

\* C10: the first getHeaders call issued after invalidateCache() returned
\* starts a new token fetch, in every interleaving.
C10_NextCallAfterInvalidateFetches ==
    \A c \in Callers : calls[c].afterInvalidate => calls[c].kind = "owner"

\* C11: while a token is cached and now < expiresAt - 60 s, a getHeaders call
\* returns that token in its first run: no token POST leaves (no promise is
\* created), and cachedToken and tokenRefreshPromise are left as they were.
C11_CacheHitTouchesNothing ==
    [][(cachedToken # NullToken /\ BeforeMargin(now, cachedToken.expiresAt)) =>
         \A c \in Callers :
            (calls[c].pc = "idle" /\ calls'[c].pc # "idle") =>
                /\ calls'[c].pc = "done"
                /\ calls'[c].result = cachedToken.accessToken
                /\ promises' = promises
                /\ cachedToken' = cachedToken
                /\ tokenRefreshPromise' = tokenRefreshPromise]_vars

\* the second call was served from the cache: one token POST in all
C11_Witness ==
    /\ calls[2].pc = "done" /\ calls[2].kind = "cache"
    /\ calls[2].result = cachedToken.accessToken
    /\ Len(promises) = 1

\* C12: a refresh that ends with a non-2xx answer, a transport error or an
\* answer without access_token never assigns cachedToken, and every getHeaders
\* call that awaited it ends with an AuthError.
C12_FailedRefreshRejectsAndCachesNothing ==
    /\ \A r \in 1..Len(promises) : promises[r].failed => ~promises[r].wrote
    /\ \A c \in Callers :
          (calls[c].pc = "done" /\ calls[c].promise # 0
                /\ promises[calls[c].promise].failed) =>
              calls[c].result = AuthErrorResult

-----------------------------------------------------------------------------
(* Claims about the retry loop of OvhClient.request *)

\* the request got past the rate limiter (skipRateLimit, or acquire() granted
\* a token), so that it has executor attempts
Admitted == req.skipRateLimit \/ req.acquired

\* C3: with skipRetry false, a request whose every attempt failed with a
\* retryable error (an OvhApiError with retryable = true) throws after exactly
\* maxRetries + 1 attempts, each with its transport call. The request has
\* attempts: one that acquire() refuses throws before the loop.
C3_ExhaustedRetriesCount ==
    (req.pc = "thrown" /\ Admitted /\ ~req.skipRetry /\ req.allRetryable)
    => (req.attempts = req.maxRetries + 1 /\ req.transportCalls = req.maxRetries + 1)

C3_Witness ==
    /\ req.pc = "thrown" /\ Admitted /\ ~req.skipRetry /\ req.allRetryable
    /\ req.maxRetries = 2 /\ req.transportCalls = 3

\* C4: with skipRetry true a request makes one executor attempt and no
\* backoff sleep, whatever maxRetries and the failure's retryable flag are.
\* The request has attempts: one that acquire() refuses ends before the loop.
C4_SkipRetryOneAttempt ==
    req.skipRetry =>
        /\ req.attempts <= 1
        /\ req.sleeps = 0
        /\ (req.pc \in {"returned", "thrown"} /\ Admitted => req.attempts = 1)

C4_Witness ==
    /\ req.skipRetry /\ req.pc = "thrown" /\ Admitted /\ req.maxRetries = 2
    /\ req.raised.retryable /\ req.attempts = 1

\* C5: once attempt k has succeeded after k - 1 attempts that failed with
\* HTTP 503 or 429, the request has returned that answer after exactly k
\* transport calls, and stays so: no attempt follows.
C5_SuccessEndsRequest ==
    (req.response # 0 /\ req.priorHttpRetryable)
    => /\ req.pc = "returned"
       /\ req.attempt <= req.maxAttempts
       /\ req.attempts = req.attempt
       /\ req.transportCalls = req.attempt
       /\ req.sleeps = req.attempt - 1

C5_Witness ==
    /\ req.pc = "returned" /\ req.response = 200 /\ req.priorHttpRetryable
    /\ req.firstStatus = 503 /\ req.attempt = 2 /\ req.transportCalls = 2

\* C6: a request whose first attempt received HTTP 400 has made one
\* transport call and no backoff sleep, and has thrown an invalid-params
\* OvhApiError with retryable = false.
C6_Http400EndsAtOnce ==
    req.firstStatus = 400
    => /\ req.pc = "thrown"
       /\ req.transportCalls = 1
       /\ req.sleeps = 0
       /\ IsOvhApiError(req.thrown)
       /\ req.thrown.mcp = INVALID_PARAMS
       /\ ~req.thrown.retryable

C8_ThrownIsLastAttemptError ==
    (req.pc = "thrown" /\ req.attempts >= 1)
    => (req.thrown = req.raised /\ req.thrown.at = req.attempts)

C8_Witness ==
    /\ req.pc = "thrown" /\ req.attempts = 3
    /\ req.thrown.at = 3 /\ req.thrown.httpStatus = 500 /\ req.firstStatus = 503

\* C13: when getHeaders of the credential strategy rejects with an AuthError,
\* executeRequest throws an OvhApiError of kind permission-denied whose
\* retryable flag is false, and makes no fetch call in that attempt.
C13_AuthErrorWrappedNoTransport ==
    req.lastAuth = "AuthError" =>
        /\ req.raised.cls = "OvhApiError"
        /\ req.raised.mcp = PERMISSION_DENIED
        /\ ~req.raised.retryable
        /\ req.lastTransport = 0

\* a request with retries allowed ended on the wrapped AuthError of its first
\* attempt, and no fetch was made
C13_Witness ==
    /\ req.pc = "thrown" /\ req.maxRetries = 2 /\ ~req.skipRetry
    /\ req.lastAuth = "AuthError" /\ req.attempts = 1 /\ req.transportCalls = 0
    /\ req.thrown.code = "AUTH_ERROR"

\* C14: whatever the strategy, maxRetries and the cause, once getHeaders has
\* rejected in an attempt, the logical request makes no further executeRequest
\* call.
C14_NoAttemptAfterAuthFailure ==
    [][req.lastAuth \notin {"none", "ok"} => req'.attempts = req.attempts]_vars

-----------------------------------------------------------------------------
(* Claims about the bearer passthrough *)

\* C15: getHeaders called outside every scope, or in a scope bound to the
\* empty token, fails with an AuthError; called in a scope bound to a token it
\* returns Authorization: Bearer with exactly that token.
C15_BearerFailsWithAuthError ==
    /\ bearer.outside.cls \in {"none", "AuthError"}
    /\ ~bearer.outside.ok
    /\ \A s \in Scopes :
          bearer.scopes[s].last # NoOutcome =>
              IF bearer.scopes[s].store = ""
              THEN ~bearer.scopes[s].last.ok /\ bearer.scopes[s].last.cls = "AuthError"
              ELSE bearer.scopes[s].last.ok
                   /\ bearer.scopes[s].last.token = bearer.scopes[s].store

\* C16: every getHeaders call made inside a scope ends with the scope's own
\* token (a failure when the scope bound the empty token), however the scopes
\* overlap, and a call made outside every scope is never handed a token,
\* whatever scopes are open or have completed.
C16_ScopesIsolated ==
    /\ \A s \in Scopes : bearer.scopes[s].own
    /\ ~bearer.outside.ok

\* two scopes bound to different tokens, each having made its last call while
\* the other was open, and each was handed its own token; scope 1 then ended
C16_Witness ==
    /\ bearer.scopes[1].store = "a" /\ bearer.scopes[2].store = "b"
    /\ bearer.scopes[1].during /\ bearer.scopes[2].during
    /\ bearer.scopes[1].last.token = "a" /\ bearer.scopes[2].last.token = "b"
    /\ bearer.scopes[1].pc = "rejected" /\ bearer.scopes[2].pc = "open"
    /\ bearer.outside.cls = "Error"

-----------------------------------------------------------------------------
(* Claims about the signed-request provider *)

\* C17: a getHeaders call whose time-sync fetch ended with a non-2xx answer or
\* a transport error (and that no other call or invalidateCache overlapped)
\* does not reject, leaves timeDelta set to 0 when its syncTime returns, and
\* computes its timestamp and signature with delta 0.
C17_SyncFailureSetsDeltaZero ==
    \A c \in Callers :
        (ak.calls[c].pc = "done" /\ ak.calls[c].syncAns \in SyncFailures
              /\ ~ak.overlap) =>
            /\ ~ak.calls[c].threw
            /\ ak.calls[c].afterSync = Delta(0)
            /\ ak.calls[c].used = 0

\* C18: with calls made one after the other: once a call issued since the
\* last invalidateCache has completed, timeDelta is present; a call issued
\* after such a completion makes no time-sync fetch; and the first call issued
\* after an invalidateCache makes one.
C18_DeltaRetainedUntilInvalidate ==
    ~ak.overlap =>
        /\ ak.completedSince => ak.timeDelta.present
        /\ \A c \in Callers :
              /\ (ak.calls[c].pc # "idle" /\ ak.calls[c].afterCompleted)
                    => ~ak.calls[c].synced
              /\ (ak.calls[c].pc # "idle" /\ ak.calls[c].afterInvalidate)
                    => ak.calls[c].synced

-----------------------------------------------------------------------------
(* Claims about the error taxonomy *)

\* C19: for every HTTP status in 500..599 the error parseOvhError returns is
\* retryable, of kind service-unavailable for 503 and of kind internal for
\* every other status of the range.
C19_ServerErrorsRetryableByKind ==
    (tax.pc = "done" /\ ~tax.threw /\ tax.httpStatus \in 500..599) =>
        /\ tax.error.retryable
        /\ tax.error.mcp = IF tax.httpStatus = 503 THEN SERVICE_UNAVAILABLE
                                                   ELSE INTERNAL_ERROR

\* C20: the error parseOvhError returns for status 400 is invalid-params, for
\* 401 and 403 permission-denied, for 404 resource-not-found, all three not
\* retryable, and for 429 rate-limited and retryable.
C20_ClientErrorsByKind ==
    (tax.pc = "done" /\ ~tax.threw) =>
        /\ tax.httpStatus = 400 =>
                tax.error.mcp = INVALID_PARAMS /\ ~tax.error.retryable
        /\ tax.httpStatus \in {401, 403} =>
                tax.error.mcp = PERMISSION_DENIED /\ ~tax.error.retryable
        /\ tax.httpStatus = 404 =>
                tax.error.mcp = RESOURCE_NOT_FOUND /\ ~tax.error.retryable
        /\ tax.httpStatus = 429 =>
                tax.error.mcp = RATE_LIMITED /\ tax.error.retryable

\* parseOvhError of part_008 returned the rate-limited, retryable error of a 429
C20_Witness ==
    /\ tax.pc = "done" /\ tax.def = "part_008" /\ tax.httpStatus = 429
    /\ tax.error.cls = "OvhApiError"
    /\ tax.error.mcp = RATE_LIMITED /\ tax.error.retryable


\* C21: for every HTTP status that is none of 400, 401, 403, 404, 429 and lies
\* outside 500..599, the error parseOvhError returns is of kind internal and
\* not retryable.
C21_OtherStatusesInternal ==
    (tax.pc = "done" /\ ~tax.threw
          /\ tax.httpStatus \notin {400, 401, 403, 404, 429}
          /\ tax.httpStatus \notin 500..599) =>
        tax.error.mcp = INTERNAL_ERROR /\ ~tax.error.retryable

\* C22: the message of the error parseOvhError returns is the message field
\* of the body when the body parses with a message field, and the synthesized
\* "HTTP {status}" message in every other case.
C22_MessageFromBodyOrSynthesized ==
    (tax.pc = "done" /\ ~tax.threw) =>
        tax.message = IF tax.body = "jsonMessage" THEN "bodyMessage"
                                                  ELSE "synthesized"

\* C22 (amended): where parseOvhError of part_008 returns, the message is the
\* body's message field when the body parses with one, the body text itself
\* when the body does not parse and is not empty, and the synthesized message
\* when the body parses without a message or is empty.
C22_MessageBodyRawOrSynthesized ==
    (tax.pc = "done" /\ ~tax.threw /\ tax.def = "part_008") =>
        /\ tax.body = "jsonMessage" => tax.message = "bodyMessage"
        /\ tax.body = "text" => tax.message = "rawBody"
        /\ tax.body \in {"jsonNoMessage", "empty"} => tax.message = "synthesized"

\* parseOvhError of part_008 returned the body text of a 502 answer as message
C22_Witness ==
    /\ tax.pc = "done" /\ tax.def = "part_008" /\ tax.httpStatus = 502
    /\ tax.body = "text" /\ tax.message = "rawBody"

-----------------------------------------------------------------------------
(* Claims about executeRequest, the rate limiter and the backoff of
   OvhClient.request *)

\* C23: an attempt whose fetch had produced no response when the timer fired
\* was aborted (the timer has fired) and failed with a TimeoutError of
\* httpStatus 0 and retryable = true; the attempt returned no response.
C23_TimeoutIsRetryableTimeoutError ==
    req.lastOutcome = "abort" =>
        /\ req.lastTimer = "fired"
        /\ req.raised.cls = "TimeoutError"
        /\ req.raised.httpStatus = 0
        /\ req.raised.retryable
        /\ req.response = 0 /\ req.pc # "returned"

C23_Witness ==
    /\ req.lastOutcome = "abort" /\ req.pc = "thrown"
    /\ req.thrown.cls = "TimeoutError" /\ req.attempts = req.maxRetries + 1

\* C24: an attempt whose fetch threw something other than the abort failed
\* with the network-error OvhApiError, httpStatus 0 and retryable = true, and
\* the request goes on (backoff sleep, then the next attempt) while attempts
\* remain: it has thrown only if that attempt was the last one allowed.
C24_TransportThrowIsRetryableNetworkError ==
    req.lastOutcome = "throw" =>
        /\ req.raised.cls = "OvhApiError"
        /\ req.raised.code = "NETWORK_ERROR"
        /\ req.raised.httpStatus = 0
        /\ req.raised.retryable
        /\ req.pc \in {"sleep", "attempt", "thrown"}
        /\ (req.pc = "thrown" => req.raised.at = req.maxAttempts)
        /\ (req.raised.at < req.maxAttempts => req.sleeps = req.raised.at)

C24_Witness ==
    /\ req.lastOutcome = "throw" /\ req.pc = "sleep"
    /\ req.raised.code = "NETWORK_ERROR" /\ req.attempt < req.maxAttempts

\* C27 as stated: once a facade call has returned or thrown, every piece of
\* state the client holds is what it was when the call was made. Violated by
\* the bucket of the rate limiter.
C27_NoClientStateChanged ==
    req.pc \in {"returned", "thrown"} => limiter = req.limiterBefore

\* C27 amended: once a facade call has returned or thrown, the bucket of the
\* rate limiter is the only client state it changed. With skipRateLimit the
\* bucket is what it was; otherwise it is the bucket refilled at the call
\* (and again after the wait of acquire), less one token when acquire()
\* granted one.
C27_OnlyTheBucketChanges ==
    req.pc \in {"returned", "thrown"} =>
        LET atCall == refill(req.limiterBefore, req.calledAt)
            atGrant == refill(atCall, req.calledAt + req.wait)
        IN  IF req.skipRateLimit THEN limiter = req.limiterBefore
            ELSE IF req.acquired
            THEN limiter = [atGrant EXCEPT !.tokens = @ - OneToken]
            ELSE limiter = atGrant

C27_Witness ==
    /\ req.pc = "returned" /\ ~req.skipRateLimit /\ req.acquired
    /\ req.limiterBefore.tokens = LimiterMaxTokens * OneToken
    /\ limiter.tokens = (LimiterMaxTokens - 1) * OneToken

\* C28: the attempts of a request are sequential. At most one attempt is in
\* flight; attempt N + 1 has started only when attempt N has ended without a
\* response and N backoff sleeps have elapsed; no attempt is in flight during
\* a backoff sleep.
C28_AttemptsSequentialAfterBackoff ==
    /\ req.started - req.attempts \in {0, 1}
    /\ (req.started - req.attempts = 1 <=> req.pc = "attempt")
    /\ (req.started >= 1 => req.sleepsDone >= req.started - 1)
    /\ (req.pc = "attempt" => req.response = 0 /\ req.sleepsDone = req.attempts)
    /\ (req.pc = "sleep" => req.started = req.attempts
                            /\ req.sleepsDone = req.attempts - 1)

C28_Witness ==
    /\ req.pc = "attempt" /\ req.started = 3 /\ req.attempts = 2
    /\ req.sleepsDone = 2

\* C29: whichever way the last executeRequest ended (success, HTTP error,
\* timeout, network error, response-parse error, auth failure), the timer it
\* armed is not pending: it was cleared, it had fired, or it was never armed.
C29_NoTimerPendingAtExit ==
    req.attempts >= 1 =>
        /\ req.lastTimer # "pending"
        /\ (req.lastAuth # "ok" <=> req.lastTimer = "unarmed")
        /\ (req.lastOutcome = "abort" <=> req.lastTimer = "fired")

C29_Witness ==
    /\ req.pc = "thrown" /\ req.lastOutcome = "response"
    /\ req.thrown.httpStatus = 404 /\ req.lastTimer = "cleared"

\* base(k) of the backoff: 1000, 2000, 4000 ms for k = 1, 2, 3, and 4000 ms
\* for every k > 3
BaseDelay(k) == IF k = 1 THEN 1000 ELSE IF k = 2 THEN 2000 ELSE 4000

\* C30: the delay slept after failed attempt k is at least base(k) and at
\* most base(k) plus 25% of base(k); a request that has returned after
\* retries, or thrown with its attempts exhausted, has slept once less than it
\* has made attempts.
C30_BackoffDelayAndSleepCount ==
    /\ req.pc = "sleep" =>
            /\ BaseDelay(req.attempt) <= req.delay
            /\ 4 * req.delay <= 5 * BaseDelay(req.attempt)
    /\ (\/ req.pc = "returned" /\ req.attempts > 1
        \/ req.pc = "thrown" /\ Admitted /\ req.attempts = req.maxAttempts)
       => (req.sleeps = req.attempts - 1 /\ req.sleepsDone = req.sleeps)

C30_Witness ==
    /\ req.pc = "sleep" /\ req.attempt = 4
    /\ req.delay > BaseDelay(4)

-----------------------------------------------------------------------------
(* Claims about the tool dispatch *)

C26_WriteToolsGated ==
    /\ (tool.pc # "idle" /\ tool.toolName \in writeToolDefs /\ ~tool.enableWriteTools)
           => /\ tool.pc \in {"thrown", "formatted"}
              /\ tool.thrown.cls = "ValidationError"
              /\ tool.origin = "dispatch"
              /\ ~tool.handlerRan
              /\ tool.apiCalls = 0
    /\ tool.listedFor = "false"
           => /\ tool.listed = readOnlyToolDefs
              /\ Cardinality(tool.listed) = 8
              /\ tool.listed \cap writeToolDefs = {}

C26_Witness ==
    /\ tool.pc = "formatted" /\ tool.toolName = "ovh.webhosting.installSsl"
    /\ ~tool.enableWriteTools /\ tool.code = INVALID_PARAMS
    /\ tool.listedFor = "false" /\ Cardinality(writeToolDefs) = 6

-----------------------------------------------------------------------------
(* Claims about the attempts of OvhClient.request: credentials, termination,
   answers *)

\* C31: every attempt makes its own getHeaders call, before its transport
\* call: there are as many getHeaders calls as attempts, no transport call
\* without one, and the headers the last fetch sent are those the getHeaders
\* call of the same attempt returned, never those of an earlier attempt.
C31_FreshHeadersPerAttempt ==
    /\ req.credentialCalls = req.attempts
    /\ req.transportCalls <= req.credentialCalls
    /\ req.lastTransport = 1 =>
            /\ req.headersAt = req.attempts
            /\ req.sentHeadersAt = req.attempts

C31_Witness ==
    /\ req.attempts = 3 /\ req.transportCalls = 3
    /\ req.credentialCalls = 3 /\ req.sentHeadersAt = 3

\* C32: every credential call, transport call and sleep completing, a request
\* that was made ends: it returns a response or throws. It never makes more
\* than maxAttempts transport calls nor more than maxAttempts - 1 backoff
\* sleeps.
C32_RequestEndsWithinBounds ==
    /\ [](/\ req.transportCalls <= maxAttemptsOf(req.skipRetry, req.maxRetries)
          /\ req.sleeps <= maxAttemptsOf(req.skipRetry, req.maxRetries) - 1)
    /\ (req.pc # "idle") ~> (req.pc \in {"returned", "thrown"})

C32_Witness ==
    /\ req.pc = "thrown" /\ req.maxRetries = MaxFairRetries /\ ~req.skipRetry
    /\ req.transportCalls = req.maxRetries + 1
    /\ req.sleeps = req.maxRetries /\ req.sleepsDone = req.maxRetries
    /\ req.maxRetries >= 1

\* C35: a request makes no transport call after one of its transport calls
\* was answered with a 2xx status, whatever the body of that answer is.
C35_NoCallAfter2xx == ~req.reissued

\* C36: the error executeRequest throws for an answer that is not 2xx has the
\* status of the answer as its httpStatus and the retryable flag the status
\* mapping gives that status, whatever the body of the answer is.
C36_NonOkErrorKeepsStatus ==
    (req.lastOutcome = "response" /\ req.lastStatus \notin 200..299) =>
        /\ req.raised.httpStatus = req.lastStatus
        /\ req.raised.retryable = mapHttpStatusToMcp(req.lastStatus).retryable

-----------------------------------------------------------------------------
(* Claims about the rate limiter in OvhClient.request *)

\* C39: a request takes exactly one token from the rate limiter, before its
\* first attempt; with skipRateLimit it takes none; a request that
\* acquire() has not let through has taken none and started no attempt; the
\* attempts and the backoff sleeps leave the bucket alone.
C39_OneTokenPerRequest ==
    /\ [](/\ (req.pc # "idle" /\ Admitted) =>
                req.tokensTaken = IF req.skipRateLimit THEN 0 ELSE 1
          /\ ~Admitted => (req.tokensTaken = 0 /\ req.started = 0)
          /\ req.skipRateLimit => limiter = req.limiterBefore)
    /\ [][req.pc \in {"attempt", "sleep"} => limiter' = limiter]_vars

C39_Witness ==
    /\ req.pc = "thrown" /\ ~req.skipRateLimit /\ req.acquired /\ req.wait > 0
    /\ req.attempts = 2 /\ req.tokensTaken = 1 /\ limiter.tokens = 0

\* C40: a request that the rate limiter rejects, at once or after the wait,
\* throws a RateLimitError whose retryable flag is true, and it has made no
\* credential call, no transport call, no attempt and no backoff sleep; only
\* such a request throws a RateLimitError.
C40_RateLimitRejectionNotRetried ==
    /\ (req.pc = "thrown" /\ ~Admitted) =>
            /\ req.thrown.cls = "RateLimitError"
            /\ req.thrown.retryable
            /\ req.credentialCalls = 0 /\ req.transportCalls = 0
            /\ req.attempts = 0 /\ req.started = 0 /\ req.sleeps = 0
    /\ req.thrown.cls = "RateLimitError" => (req.pc = "thrown" /\ ~Admitted)

C40_Witness ==
    /\ req.pc = "thrown" /\ req.thrown.cls = "RateLimitError"
    /\ req.wait > 0 /\ req.maxRetries >= 1 /\ ~req.skipRetry

-----------------------------------------------------------------------------
(* Claims about the in-flight marker of OAuth2ServiceAccountProvider *)

\* C37: once every refresh that was started has completed (the getValidToken
\* call that started it has left its try/finally), with success or not, the
\* in-flight marker is absent; a getHeaders call issued then that finds no
\* valid token in the cache starts a token fetch of its own, so it does not
\* receive the failure of an earlier refresh.
C37_MarkerAbsentAfterRefresh ==
    /\ ~RefreshUnderWay => tokenRefreshPromise = 0
    /\ \A c \in Callers :
          (calls[c].pc # "idle" /\ ~calls[c].underWayAtIssue /\ calls[c].kind # "cache")
             => /\ calls[c].kind = "owner"
                /\ \A d \in Callers :
                      (d < c /\ calls[d].kind = "owner")
                         => calls[d].promise # calls[c].promise

C37_Witness ==
    \E c, d \in Callers :
        /\ d < c /\ invalidations = 0
        /\ calls[d].pc = "done" /\ calls[d].kind = "owner"
        /\ calls[d].result = AuthErrorResult
        /\ calls[c].kind = "owner" /\ ~calls[c].underWayAtIssue
        /\ calls[c].pc = "done" /\ calls[c].result = calls[c].promise

-----------------------------------------------------------------------------
(* Claims about concurrent calls of the signed-request provider *)

\* C34: a getHeaders call issued while another call, issued since the same
\* invalidateCache, is making its time-sync call makes no time-sync call of
\* its own, and signs with the delta that the other call's sync established.
C34_ConcurrentCallsOneSync ==
    \A c \in Callers : \A d \in ak.calls[c].inFlightAtIssue :
        (ak.calls[d].synced /\ ak.calls[d].epoch = ak.calls[c].epoch
            /\ ak.invalidations = ak.calls[c].epoch) =>
            /\ ~ak.calls[c].synced
            /\ (ak.calls[c].pc = "done" /\ ak.calls[d].pc = "done")
                  => ak.calls[c].used = ak.calls[d].used

-----------------------------------------------------------------------------
(* Claims about the HTTP transport *)

\* C33: in bearer mode, with two or more SSE sessions open under different
\* bearer tokens, a tool call runs under the bearer token of the POST that
\* carried it
C33_ToolCallUsesRequestToken ==
    (/\ sse.authMode = "bearer"
     /\ sse.last.status = "handled" /\ sse.last.method = "tools/call"
     /\ Cardinality(sse.last.open) >= 2)
        => sse.last.boundToken = sse.last.requestToken

-----------------------------------------------------------------------------
(* Claims about concurrent callers of the rate limiter *)

\* C38: under every interleaving of acquire (suspended ones included),
\* getAvailableTokens and reset, tokens stays between 0 and maxTokens, and an
\* acquire that returned true lowered tokens by exactly one
C38_TokensWithinBucket ==
    /\ 0 <= limiter.tokens
    /\ limiter.tokens <= LimiterMaxTokens * OneToken
    /\ \A a \in Acquirers :
           /\ acq.calls[a].pc = "acquired" => acq.calls[a].took = OneToken
           /\ acq.calls[a].pc = "rejected" => acq.calls[a].took = 0

\* two callers went through their sleep, one was granted a token and the
\* other was not, which left the bucket empty; the bucket was reset and read
C38_Witness ==
    /\ \E a, b \in Acquirers :
           /\ acq.calls[a].pc = "acquired" /\ acq.calls[a].slept
           /\ acq.calls[b].pc = "rejected" /\ acq.calls[b].slept
    /\ acq.wasReset /\ acq.available >= 0
    /\ limiter.tokens = 0 /\ limiter.lastRefillTime > 0

=============================================================================
